---- MODULE Spec2Model ----
(***************************************************************************)
(* Model of the DVO osteoporosis threshold classifier (dideldei/osteopo):  *)
(* the App component's signals and handlers, and the pure functions of     *)
(* src/data (rfCatalog, rfSelection, lookup) they call.                     *)
(***************************************************************************)
EXTENDS Integers, Sequences, FiniteSets, TLC

VARIABLES
    sex,              \* signal sex: "null", "female" or "male"
    age,              \* signal age: <<>> (null) or <<years>>
    tscoreTotalHip,   \* signal tscoreTotalHip: <<>> (null) or <<hundredths>>
    selectedRfIds,    \* signal selectedRfIds: set of rf_id
    expandedMegs,     \* signal expandedMegs: set of MEG ids
    catalog,          \* the RF catalog returned by loadRfCatalog
    bundle,           \* the threshold bundle returned by loadBundle
    call              \* the last direct application of a pure function

vars == <<sex, age, tscoreTotalHip, selectedRfIds, expandedMegs, catalog, bundle, call>>

(***************************************************************************)
(* Optional values: null is <<>>, a present value v is <<v>>.              *)
(***************************************************************************)
Null == <<>>
Some(v) == <<v>>
IsNull(o) == o = <<>>
Val(o) == o[1]

(***************************************************************************)
(* IEEE-754 doubles.  A double is written [h, n, u]: the decimal           *)
(* h/100 + n*1e-10, plus u*1e-17, u being the distance of the double from  *)
(* that decimal (rounded to 1e-17).  |n*1e-10 + u*1e-17| stays far below   *)
(* 1/100, so doubles compare lexicographically on (h, n, u), and two       *)
(* doubles are equal iff the three parts are.                              *)
(***************************************************************************)
Dbl(h, n, u) == [h |-> h, n |-> n, u |-> u]

\* sign of a - b
DblCmp(a, b) ==
    IF a.h # b.h THEN (IF a.h > b.h THEN 1 ELSE -1)
    ELSE IF a.n # b.n THEN (IF a.n > b.n THEN 1 ELSE -1)
    ELSE IF a.u # b.u THEN (IF a.u > b.u THEN 1 ELSE -1)
    ELSE 0

DblGt(a, b) == DblCmp(a, b) = 1
DblGeq(a, b) == DblCmp(a, b) >= 0

\* The double a decimal literal h/100 of the JSON data or the code parses to.
DblLit(h) ==
    Dbl(h, 0, CASE h = 90 -> 2
                [] h = 140 -> -9
                [] h = 210 -> 9
                [] OTHER -> 0)   \* 1.0, 1.5, 2.0, 3.0, 4.0 are exact

\* a * b of two literal doubles, rounded to the nearest double
DblMul(a, b) ==
    LET p == {a.h, b.h}
    IN Dbl((a.h * b.h) \div 100, 0,
           CASE p = {140} -> -26
             [] p = {140, 150} -> -36
             [] p = {140, 200} -> -18
             [] p = {140, 300} -> -71
             [] OTHER -> 0)      \* products of 1.0, 1.5, 2.0, 3.0 are exact

\* a - k*1e-10 of a literal double a, rounded to the nearest double
DblSubTiny(a, k) ==
    LET key == <<a.h, k>>
    IN Dbl(a.h, a.n - k,
           CASE key = <<90, 1>> -> 1    [] key = <<90, 10>> -> 5
             [] key = <<90, 100>> -> -3
             [] key = <<100, 1>> -> -1  [] key = <<100, 10>> -> 3
             [] key = <<100, 100>> -> -5
             [] key = <<210, 1>> -> 8   [] key = <<210, 10>> -> 1
             [] key = <<210, 100>> -> 15
             [] key = <<400, 1>> -> -1  [] key = <<400, 10>> -> -8
             [] key = <<400, 100>> -> 6
             [] OTHER -> 0)

One == Dbl(100, 0, 0)

(***************************************************************************)
(* The RF catalog (types.ts RiskFactor, RfCatalog).  An absent optional    *)
(* string field is "", an absent flag is FALSE.                            *)
(***************************************************************************)
SINGLE == "single_choice_optional"

Rf(id, grp, rr, incl, imm, strong, meg, mode) ==
    [rf_id |-> id, group |-> grp, rr_3y |-> DblLit(rr),
     included_in_risk_calc |-> incl,
     imminent_rr |-> imm, strong_irreversible_A |-> strong,
     mutual_exclusion_group_id |-> meg, exclusion_mode |-> mode]

\* The risk factors catalogs are made of.
RfPool ==
    << Rf("rf_fall_a",   "G1_STURZ", 150, TRUE,  TRUE,  FALSE, "meg_fall",  ""),
       Rf("rf_fall_b",   "G1_STURZ", 150, TRUE,  FALSE, FALSE, "meg_fall",  ""),
       Rf("rf_gc_high",  "G2_RA_GC", 200, TRUE,  FALSE, FALSE, "meg_gc",    ""),
       Rf("rf_ra",       "G2_RA_GC", 140, TRUE,  FALSE, TRUE,  "meg_gc",    ""),
       Rf("rf_other_a",  "G3_OTHER", 200, TRUE,  FALSE, FALSE, "meg_other", ""),
       Rf("rf_other_b",  "G3_OTHER", 150, TRUE,  FALSE, FALSE, "meg_other", "multi_select"),
       Rf("rf_other_c",  "G3_OTHER", 140, TRUE,  FALSE, TRUE,  "",          ""),
       Rf("rf_trigger",  "G1_STURZ", 300, FALSE, TRUE,  FALSE, "meg_fall",  ""),
       Rf("rf_hidden",   "G3_OTHER", 300, FALSE, FALSE, FALSE, "meg_other", ""),
       Rf("rf_other_d",  "G3_OTHER", 150, TRUE,  FALSE, FALSE, "",          "") >>

\* meta.mutual_exclusion_groups of the catalogs; meg_other is not declared.
DeclaredMegs ==
    << [id |-> "meg_fall", mode |-> SINGLE],
       [id |-> "meg_gc",   mode |-> "multi_select"] >>

MaxCatalogLen == 4

Reverse(s) == [i \in 1..Len(s) |-> s[Len(s) + 1 - i]]

\* the elements of s at the indices I, in the order of s
Pick(s, I) ==
    LET F[i \in 0..Len(s)] ==
            IF i = 0 THEN <<>>
            ELSE IF i \in I THEN Append(F[i - 1], s[i]) ELSE F[i - 1]
    IN F[Len(s)]

RfLists ==
    { Pick(p, I) : p \in {RfPool, Reverse(RfPool)},
                   I \in {J \in SUBSET (1..Len(RfPool)) : Cardinality(J) <= MaxCatalogLen} }

Catalogs ==
    { [mutual_exclusion_groups |-> DeclaredMegs, risk_factors |-> l] : l \in RfLists }

\* the catalog of the whole-App specification
AppCatalog ==
    [mutual_exclusion_groups |-> DeclaredMegs,
     risk_factors |-> Pick(RfPool, {1, 3, 4, 7, 8, 9})]

Range(s) == {s[i] : i \in 1..Len(s)}
RfIdsOf(rfs) == {rfs[i].rf_id : i \in 1..Len(rfs)}

(***************************************************************************)
(* rfCatalog.ts                                                             *)
(***************************************************************************)
getRiskFactorsForCalculationUnfiltered(cat) == cat.risk_factors

getRiskFactorsForCalculation(cat) ==
    LET T(rf) == rf.included_in_risk_calc = TRUE IN SelectSeq(cat.risk_factors, T)

getAllRiskFactors(cat) == cat.risk_factors

MapSet(m, k, v) == [x \in (DOMAIN m) \cup {k} |-> IF x = k THEN v ELSE m[x]]
EmptyMap == [x \in {} |-> x]

\* rfToMeg.get(id): undefined and null are both "no MEG", written ""
MapGet(m, k) == IF k \in DOMAIN m THEN m[k] ELSE ""

\* 51-58: the MEG entry of megId gains rf; an undeclared MEG is created from rf
AddRfToMegForgetFirst(megToRfs, megId, rf) ==
    IF megId \in DOMAIN megToRfs
    THEN MapSet(megToRfs, megId,
                [rfIds |-> Append(megToRfs[megId].rfIds, rf.rf_id),
                 mode  |-> megToRfs[megId].mode])
    ELSE MapSet(megToRfs, megId,
                [rfIds |-> <<>>,
                 mode  |-> IF rf.exclusion_mode # "" THEN rf.exclusion_mode ELSE SINGLE])

AddRfToMeg(megToRfs, megId, rf) ==
    IF megId \in DOMAIN megToRfs
    THEN MapSet(megToRfs, megId,
                [rfIds |-> Append(megToRfs[megId].rfIds, rf.rf_id),
                 mode  |-> megToRfs[megId].mode])
    ELSE MapSet(megToRfs, megId,
                [rfIds |-> <<rf.rf_id>>,
                 mode  |-> IF rf.exclusion_mode # "" THEN rf.exclusion_mode ELSE SINGLE])

\* rfToMeg holds "" where the code holds null.
buildMegIndex(cat) ==
    LET rfs == cat.risk_factors
        megs == cat.mutual_exclusion_groups
        \* 38-42: one entry per declared MEG
        M0[i \in 0..Len(megs)] ==
            IF i = 0 THEN EmptyMap
            ELSE MapSet(M0[i - 1], megs[i].id, [rfIds |-> <<>>, mode |-> megs[i].mode])
        \* 45-62: one step of the loop over the risk factors
        Step(idx, rf) ==
            IF rf.mutual_exclusion_group_id # ""
            THEN LET megId == rf.mutual_exclusion_group_id
                 IN [rfToMeg  |-> MapSet(idx.rfToMeg, rf.rf_id, megId),
                     megToRfs |-> AddRfToMeg(idx.megToRfs, megId, rf)]
            ELSE [rfToMeg  |-> MapSet(idx.rfToMeg, rf.rf_id, ""),
                  megToRfs |-> idx.megToRfs]
        F[i \in 0..Len(rfs)] ==
            IF i = 0 THEN [megToRfs |-> M0[Len(megs)], rfToMeg |-> EmptyMap]
            ELSE Step(F[i - 1], rfs[i])
    IN F[Len(rfs)]

\* The Set object the caller passed (arg, as it is after the call) and the
\* Set returned (ret).  The code copies the argument, so arg is untouched.
enforceMegRulesInPlace(selected, toggledRf, megIndex, allRfs) ==
    LET id == toggledRf.rf_id
        megId == MapGet(megIndex.rfToMeg, id)
        others == IF megId # "" /\ megId \in DOMAIN megIndex.megToRfs
                     /\ megIndex.megToRfs[megId].mode = SINGLE
                  THEN Range(megIndex.megToRfs[megId].rfIds) \ {id}
                  ELSE {}
        updated == IF id \in selected THEN selected \ {id}
                   ELSE (selected \ others) \cup {id}
    IN [arg |-> updated, ret |-> updated]

enforceMegRulesKeepOthers(selected, toggledRf, megIndex, allRfs) ==
    LET id == toggledRf.rf_id
    IN [arg |-> selected,
        ret |-> IF id \in selected THEN selected \ {id} ELSE selected \cup {id}]

\* variant that never deselects: toggling a selected factor returns the
\* selection as it is
enforceMegRulesNoDeselect(selected, toggledRf, megIndex, allRfs) ==
    LET id == toggledRf.rf_id
        megId == MapGet(megIndex.rfToMeg, id)
        others == IF megId # "" /\ megId \in DOMAIN megIndex.megToRfs
                     /\ megIndex.megToRfs[megId].mode = SINGLE
                  THEN Range(megIndex.megToRfs[megId].rfIds) \ {id}
                  ELSE {}
    IN [arg |-> selected,
        ret |-> IF id \in selected THEN selected
                ELSE (selected \ others) \cup {id}]

enforceMegRules(selected, toggledRf, megIndex, allRfs) ==
    LET id == toggledRf.rf_id
        megId == MapGet(megIndex.rfToMeg, id)                        \* 79
        isCurrentlySelected == id \in selected                       \* 80
        others == IF megId # "" /\ megId \in DOMAIN megIndex.megToRfs
                     /\ megIndex.megToRfs[megId].mode = SINGLE       \* 87-89
                  THEN Range(megIndex.megToRfs[megId].rfIds) \ {id}  \* 91-95
                  ELSE {}
        updated == IF isCurrentlySelected THEN selected \ {id}       \* 84
                   ELSE (selected \ others) \cup {id}                \* 99
    IN [arg |-> selected, ret |-> updated]

(***************************************************************************)
(* rfSelection.ts                                                           *)
(***************************************************************************)
\* Array.prototype.sort with the comparator (a, b) => key(b) - key(a), key[i]
\* being the key of s[i]: descending, and stable (equal keys keep their order).
SortDescBy(s, key) ==
    LET \* x goes before the first position whose key is strictly smaller
        Insert(sorted, x) ==
            LET smaller == {j \in 1..Len(sorted) : DblGt(key[x], key[sorted[j]])}
                at == IF smaller = {} THEN Len(sorted) + 1
                      ELSE CHOOSE j \in smaller : \A k \in smaller : j <= k
            IN SubSeq(sorted, 1, at - 1) \o <<x>> \o SubSeq(sorted, at, Len(sorted))
        F[i \in 0..Len(s)] == IF i = 0 THEN <<>> ELSE Insert(F[i - 1], i)
        order == F[Len(s)]
    IN [i \in 1..Len(s) |-> s[order[i]]]

\* a reduce whose comparison is >=, keeping the last of the strongest
ReduceStrongestKeepLast(s) ==
    LET F[i \in 1..Len(s)] ==
            IF i = 1 THEN s[1]
            ELSE IF DblGeq(s[i].rr_3y, F[i - 1].rr_3y) THEN s[i] ELSE F[i - 1]
    IN F[Len(s)]

\* s.reduce((best, current) => current.rr_3y > best.rr_3y ? current : best)
ReduceStrongest(s) ==
    LET F[i \in 1..Len(s)] ==
            IF i = 1 THEN s[1]
            ELSE IF DblGt(s[i].rr_3y, F[i - 1].rr_3y) THEN s[i] ELSE F[i - 1]
    IN F[Len(s)]

\* the pool left in the order it was built
sortPoolKeepOrder(pool) == pool

\* a sort that puts the later of two equally strong pool items first
sortPoolDescLaterFirst(pool) ==
    LET r == Reverse(pool)
    IN SortDescBy(r, [i \in 1..Len(r) |-> r[i].rf.rr_3y])

\* pool.sort((a, b) => b.rf.rr_3y - a.rf.rr_3y)
sortPoolDesc(pool) ==
    SortDescBy(pool, [i \in 1..Len(pool) |-> pool[i].rf.rr_3y])

selectTop2RiskFactors(selected, allRfs) ==
    LET InSel(rf) == rf.rf_id \in selected
        selectedRfs == SelectSeq(allRfs, InSel)                         \* 19
        IsG1(rf) == rf.group = "G1_STURZ"
        IsG2(rf) == rf.group = "G2_RA_GC"
        IsG3(rf) == rf.group = "G3_OTHER"
        g1Rfs == SelectSeq(selectedRfs, IsG1)                           \* 26
        g2Rfs == SelectSeq(selectedRfs, IsG2)                           \* 27
        g3Rfs == SelectSeq(selectedRfs, IsG3)                           \* 28
        sorted_g3 == SortDescBy(g3Rfs, [i \in 1..Len(g3Rfs) |-> g3Rfs[i].rr_3y]) \* 43
        pool ==                                                         \* 48-52
            (IF Len(g1Rfs) > 0
             THEN <<[rf |-> ReduceStrongest(g1Rfs), source |-> "G1_STURZ"]>> ELSE <<>>)
            \o (IF Len(g2Rfs) > 0
                THEN <<[rf |-> ReduceStrongest(g2Rfs), source |-> "G2_RA_GC"]>> ELSE <<>>)
            \o (IF Len(sorted_g3) >= 1
                THEN <<[rf |-> sorted_g3[1], source |-> "G3_OTHER_1"]>> ELSE <<>>)
            \o (IF Len(sorted_g3) >= 2
                THEN <<[rf |-> sorted_g3[2], source |-> "G3_OTHER_2"]>> ELSE <<>>)
        sortedPool == sortPoolDesc(pool)                                \* 55
        top == SubSeq(sortedPool, 1, IF Len(sortedPool) < 2 THEN Len(sortedPool) ELSE 2)
    IN IF Len(selectedRfs) = 0 THEN <<>>                                \* 21-23
       ELSE [i \in 1..Len(top) |->
                [rf |-> top[i].rf, poolSource |-> top[i].source]]      \* 58-61

computeCombinedMultiplierFirstOnly(chosenRfs) ==
    IF Len(chosenRfs) = 0 THEN One ELSE chosenRfs[1].rf.rr_3y

computeCombinedMultiplier(chosenRfs) ==
    IF Len(chosenRfs) = 0 THEN One
    ELSE IF Len(chosenRfs) = 1 THEN chosenRfs[1].rf.rr_3y
    ELSE DblMul(chosenRfs[1].rf.rr_3y, chosenRfs[2].rf.rr_3y)

\* a comparison that takes an empty cell for a factor that is never reached
isThresholdReachedEmptyNotReached(requiredFactor, multiplier) ==
    IF IsNull(requiredFactor)
    THEN [reached |-> FALSE, reason |-> "Schwelle bereits erreicht (Tabelle leer)"]
    ELSE [reached |-> DblGeq(multiplier, DblSubTiny(Val(requiredFactor), 10)),
          reason |-> "Multiplikator vs. erforderlicher Faktor"]

\* 1e-9, in units of 1e-10
EPSILON == 10

isThresholdReachedNoEpsilon(requiredFactor, multiplier) ==
    IF IsNull(requiredFactor)
    THEN [reached |-> TRUE,
          reason |-> "Leeres Tabellenfeld: Schwelle bereits ohne RF erreicht"]
    ELSE [reached |-> DblGeq(multiplier, Val(requiredFactor)),
          reason |-> "Multiplikator vs. erforderlicher Faktor"]

isThresholdReached(requiredFactor, multiplier) ==
    IF IsNull(requiredFactor)
    THEN [reached |-> TRUE,
          reason |-> "Leeres Tabellenfeld: Schwelle bereits ohne RF erreicht"]
    ELSE [reached |-> DblGeq(multiplier, DblSubTiny(Val(requiredFactor), EPSILON)),
          reason |-> "Multiplikator vs. erforderlicher Faktor"]

(***************************************************************************)
(* lookup.ts.  Ages are whole years, T-scores and bins hundredths.         *)
(***************************************************************************)
\* the five-year bin without the upper clamp
ageBinUnclamped(ageYears) ==
    IF ageYears < 50 THEN Null ELSE Some((ageYears \div 5) * 5)

ageBin(ageYears) ==
    IF ageYears < 50 THEN Null
    ELSE IF ageYears >= 90 THEN Some(90)
    ELSE Some((ageYears \div 5) * 5)

\* parseFloat of a table's tscore string: <<>> is NaN
ParseFloat(str) ==
    CASE str = "0.0" -> Some(0)
      [] str = "-1.0" -> Some(-100)
      [] str = "-2.0" -> Some(-200)
      [] str = "-2.5" -> Some(-250)
      [] OTHER -> Null

\* Number.prototype.toFixed(1) of a bin value
ToFixed1(v) ==
    LET tenths == IF v >= 0 THEN (v + 5) \div 10 ELSE -((5 - v) \div 10)
    IN CASE tenths = 0 -> "0.0"
         [] tenths = -10 -> "-1.0"
         [] tenths = -20 -> "-2.0"
         [] tenths = -25 -> "-2.5"
         [] OTHER -> "?"

\* sort((a, b) => b - a) of numbers without duplicates
SortNumsDesc(S) ==
    LET F[i \in 0..Cardinality(S)] ==
            IF i = 0 THEN <<>>
            ELSE Append(F[i - 1],
                        CHOOSE x \in S \ Range(F[i - 1]) :
                            \A y \in S \ Range(F[i - 1]) : x >= y)
    IN F[Cardinality(S)]

getAvailableTscoreBins(table) ==
    LET es == table.entries
        bins == {Val(ParseFloat(es[i].tscore)) :
                    i \in {j \in 1..Len(es) : es[j].tscore # "no_bmd"
                                              /\ ~IsNull(ParseFloat(es[j].tscore))}}
    IN SortNumsDesc(bins)

\* a mapping that guesses the bin 0.0 for an empty bin list
mapTscoreToBinEmptyGuess(tscore, availableBins) ==
    [threw |-> FALSE, bin |-> 0]

\* a mapping that keeps a score between two bins as it is
mapTscoreToBinNoSnap(tscore, availableBins) ==
    IF Len(availableBins) = 0 THEN [threw |-> TRUE, bin |-> 0]
    ELSE LET sortedBins == SortNumsDesc(Range(availableBins))
         IN [threw |-> FALSE,
             bin |-> IF tscore > sortedBins[1] THEN sortedBins[1]
                     ELSE IF tscore < sortedBins[Len(sortedBins)]
                     THEN sortedBins[Len(sortedBins)]
                     ELSE tscore]

\* a mapping that snaps a score between two bins to the better one
mapTscoreToBinNextBetter(tscore, availableBins) ==
    IF Len(availableBins) = 0 THEN [threw |-> TRUE, bin |-> 0]
    ELSE LET sortedBins == SortNumsDesc(Range(availableBins))
             better == {b \in Range(sortedBins) : b >= tscore}
         IN [threw |-> FALSE,
             bin |-> IF better = {} THEN sortedBins[1]
                     ELSE CHOOSE b \in better : \A c \in better : b <= c]

\* variant that throws for a score that is not a bin of the table
mapTscoreToBinExactOnly(tscore, availableBins) ==
    IF tscore \in Range(availableBins) THEN [threw |-> FALSE, bin |-> tscore]
    ELSE [threw |-> TRUE, bin |-> 0]

\* [threw |-> TRUE] is the thrown Error, else the bin returned
mapTscoreToBin(tscore, availableBins) ==
    IF Len(availableBins) = 0 THEN [threw |-> TRUE, bin |-> 0]
    ELSE
      LET sortedBins == SortNumsDesc(Range(availableBins))
          bestBin == sortedBins[1]
          worstBin == sortedBins[Len(sortedBins)]
          between == {i \in 1..(Len(sortedBins) - 1) :
                        tscore < sortedBins[i] /\ tscore > sortedBins[i + 1]}
      IN [threw |-> FALSE,
          bin |-> IF tscore \in Range(sortedBins) THEN tscore
                  ELSE IF tscore > bestBin THEN bestBin
                  ELSE IF tscore < worstBin THEN worstBin
                  ELSE IF between # {}
                       THEN sortedBins[(CHOOSE i \in between : \A k \in between : i <= k) + 1]
                  ELSE worstBin]

\* bundle.tables.find(t => t.sex === sex && t.threshold_percent === pct):
\* <<>> when there is none
FindTable(b, sexValue, thresholdPercent) ==
    LET hits == {i \in 1..Len(b.tables) :
                    b.tables[i].sex = sexValue
                    /\ b.tables[i].threshold_percent = thresholdPercent}
    IN IF hits = {} THEN Null
       ELSE Some(b.tables[CHOOSE i \in hits : \A k \in hits : i <= k])

\* tscoreBinOrNoBmd is <<>> for "no_bmd" and <<bin>> for a bin
lookupCell(b, sexValue, thresholdPercent, ageBinValue, tscoreBinOrNoBmd) ==
    LET table == FindTable(b, sexValue, thresholdPercent)
        tscoreKey == IF IsNull(tscoreBinOrNoBmd) THEN "no_bmd"
                     ELSE ToFixed1(Val(tscoreBinOrNoBmd))
    IN IF IsNull(table) THEN Null
       ELSE LET es == Val(table).entries
                hits == {i \in 1..Len(es) :
                            es[i].age = ageBinValue /\ es[i].tscore = tscoreKey}
            IN IF hits = {} THEN Null
               ELSE Some(es[CHOOSE i \in hits : \A k \in hits : i <= k].required_factor)

lookupNoBmdCell(b, sexValue, thresholdPercent, ageBinValue) ==
    lookupCell(b, sexValue, thresholdPercent, ageBinValue, Null)

\* the band of the first tier that is not reached, from the 3% tier upwards
highestReachedBandContiguous(reached3, reached5, reached10) ==
    IF ~reached3 THEN "<3%"
    ELSE IF ~reached5 THEN "3-<5%"
    ELSE IF ~reached10 THEN "5-<10%"
    ELSE ">=10%"

highestReachedBand(reached3, reached5, reached10) ==
    IF reached10 THEN ">=10%"
    ELSE IF reached5 THEN "5-<10%"
    ELSE IF reached3 THEN "3-<5%"
    ELSE "<3%"

(***************************************************************************)
(* The threshold bundles (types.ts DVOBundle).  An empty table cell has no *)
(* entry.                                                                   *)
(***************************************************************************)
Entry(a, t, rf) == [age |-> a, tscore |-> t, required_factor |-> DblLit(rf)]
Table(s, pct, es) == [sex |-> s, threshold_percent |-> pct, entries |-> es]

\* every table of BundleComplete has T-score bins
BundleComplete ==
    [tables |-> <<
        Table("female", 3,  << Entry(65, "0.0", 210), Entry(65, "-1.0", 100),
                               Entry(70, "-2.0", 90) >>),
        Table("female", 5,  << Entry(65, "no_bmd", 90), Entry(65, "0.0", 400),
                               Entry(65, "-2.0", 210) >>),
        Table("female", 10, << Entry(65, "no_bmd", 210), Entry(65, "-1.0", 400),
                               Entry(65, "-2.5", 210) >>),
        Table("male", 3,    << Entry(65, "no_bmd", 100), Entry(65, "0.0", 210) >>),
        Table("male", 5,    << Entry(65, "no_bmd", 400), Entry(65, "-1.0", 210) >>),
        Table("male", 10,   << Entry(70, "no_bmd", 210), Entry(65, "-2.0", 400) >>) >>]

\* the male 5% table of BundlePartial has no T-score bin, the male 10% table is missing
BundlePartial ==
    [tables |-> <<
        Table("female", 3,  << Entry(65, "no_bmd", 210), Entry(65, "-1.0", 210) >>),
        Table("female", 5,  << Entry(65, "no_bmd", 400), Entry(65, "-1.0", 400) >>),
        Table("female", 10, << Entry(65, "-2.0", 400) >>),
        Table("male", 3,    << Entry(65, "no_bmd", 90), Entry(65, "0.0", 100) >>),
        Table("male", 5,    << Entry(65, "no_bmd", 210) >>) >>]

\* BundleSparse has no female 10% table and no male 5% and 10% tables; its male
\* 3% table has no entry for the age bin 65
BundleSparse ==
    [tables |-> <<
        Table("female", 3,  << Entry(65, "no_bmd", 210), Entry(65, "-1.0", 210) >>),
        Table("female", 5,  << Entry(65, "0.0", 100), Entry(65, "-2.0", 400) >>),
        Table("male", 3,    << Entry(70, "no_bmd", 210), Entry(70, "-1.0", 210) >>) >>]

Bundles == {BundleComplete, BundlePartial, BundleSparse}

(***************************************************************************)
(* therapy.ts.  Bands are written with "-" for the en dash; the German     *)
(* display strings of a plan (label_de, sequence_hint, wording_de) are not *)
(* modelled.  A null deviation_flag is "null".                             *)
(***************************************************************************)
Plan(strategy, dvoGrade, degamGrade, flag) ==
    [strategy |-> strategy,
     guideline_default |-> "DEGAM",
     guideline_strength |-> [DVO |-> [grade |-> dvoGrade],
                             DEGAM |-> [grade |-> degamGrade]],
     deviation_flag |-> flag]

\* a plan that takes the trigger into account in every band
deriveTherapyPlanTriggerEverywhere(riskBand, triggerPresent) ==
    IF triggerPresent /\ riskBand # ">=10%"
    THEN Plan("consider_antiresorptive", "0", "0", "null")
    ELSE IF riskBand = ">=10%"
    THEN Plan("osteoanabolic_start", "A", "B", "DEGAM_SOFTENING")
    ELSE IF riskBand = "5-<10%" THEN Plan("antiresorptive", "A", "A", "null")
    ELSE Plan("none", "-", "-", "null")

\* a plan that considers therapy in the 3-<5% band whether or not a trigger
\* is present
deriveTherapyPlanIgnoreTrigger(riskBand, triggerPresent) ==
    IF riskBand = ">=10%"
    THEN Plan("osteoanabolic_start", "A", "B", "DEGAM_SOFTENING")
    ELSE IF riskBand = "5-<10%" THEN Plan("antiresorptive", "A", "A", "null")
    ELSE IF riskBand = "3-<5%" THEN Plan("consider_antiresorptive", "0", "0", "null")
    ELSE Plan("none", "-", "-", "null")

deriveTherapyPlan(riskBand, triggerPresent) ==
    CASE riskBand = "<3%" -> Plan("none", "-", "-", "null")                   \* 15-25
      [] riskBand = "3-<5%" ->                                                \* 27-51
            IF ~triggerPresent THEN Plan("none", "-", "-", "null")
            ELSE Plan("consider_antiresorptive", "0", "0", "null")
      [] riskBand = "5-<10%" -> Plan("antiresorptive", "A", "A", "null")      \* 53-64
      [] riskBand = ">=10%" ->                                                \* 66-77
            Plan("osteoanabolic_start", "A", "B", "DEGAM_SOFTENING")

(***************************************************************************)
(* substanceRegistry.ts.  The registry JSON is the parameter registry.     *)
(***************************************************************************)
RegEntry(id, cls, active) ==
    [substance_id |-> id, therapy_class |-> cls, active |-> active]

getSubstancesByTherapyClass(registry, therapyClass, activeOnly) ==
    LET Keep(entry) == /\ entry.therapy_class = therapyClass
                       /\ ~(activeOnly /\ ~entry.active)
        kept == SelectSeq(registry.substances, Keep)
    IN [i \in 1..Len(kept) |-> kept[i].substance_id]

\* the candidates of the therapy class, without the special case of 106-110
getCandidateSubstancesWholeClass(registry, strategy) ==
    IF strategy = "none" THEN <<>>
    ELSE getSubstancesByTherapyClass(registry,
            IF strategy = "osteoanabolic_start" THEN "osteoanabolic"
            ELSE "antiresorptive", TRUE)

getCandidateSubstances(registry, strategy) ==
    IF strategy = "none" THEN <<>>                                            \* 89-91
    ELSE
      LET therapyClass == IF strategy = "osteoanabolic_start"                 \* 94-100
                          THEN "osteoanabolic" ELSE "antiresorptive"
          candidates == getSubstancesByTherapyClass(registry, therapyClass, TRUE)
          Special(id) == id = "romosozumab" \/ id = "teriparatide"
      IN IF strategy = "osteoanabolic_start"                                  \* 106-110
         THEN SelectSeq(candidates, Special)
         ELSE candidates

(***************************************************************************)
(* evidenceTable.ts.  The evidence table JSON is the parameter             *)
(* evidenceTable.                                                          *)
(***************************************************************************)
EvEntry(id, level, hip, vertebral) ==
    [substance_id |-> id, evidence_level |-> level,
     fracture_efficacy |-> [hip |-> hip, vertebral |-> vertebral]]

\* forEach(entry => evidenceMap.set(entry.substance_id, entry))
buildEvidenceMap(evidenceTable) ==
    LET es == evidenceTable.substances
        F[i \in 0..Len(es)] ==
            IF i = 0 THEN EmptyMap ELSE MapSet(F[i - 1], es[i].substance_id, es[i])
    IN F[Len(es)]

\* null is <<>>, an entry e is <<e>>
getEvidenceFor(evidenceTable, substanceId) ==
    LET map == buildEvidenceMap(evidenceTable)
    IN IF substanceId \in DOMAIN map THEN Some(map[substanceId]) ELSE Null

(***************************************************************************)
(* substanceRanking.ts                                                      *)
(***************************************************************************)
\* the substance ids, in alphabetical order
SubstanceIds ==
    <<"alendronate", "denosumab", "romosozumab", "teriparatide", "zoledronate">>

\* a comparison that never tells two ids apart
localeCompareAlwaysEqual(a, b) == 0

\* a.localeCompare(b) of two substance ids: negative, 0 or positive
localeCompare(a, b) ==
    LET Pos(x) == CHOOSE i \in 1..Len(SubstanceIds) : SubstanceIds[i] = x
    IN Pos(a) - Pos(b)

\* an order of the levels that puts a missing level first
getEvidenceLevelOrderNullFirst(level) ==
    IF level = Some("A") THEN 1
    ELSE IF level = Some("B") THEN 2
    ELSE IF level = Some("C") THEN 3
    ELSE 0

\* level is <<>> (null) or <<"A">>, <<"B">>, <<"C">>
getEvidenceLevelOrder(level) ==
    IF level = Some("A") THEN 0
    ELSE IF level = Some("B") THEN 1
    ELSE IF level = Some("C") THEN 2
    ELSE 3

\* efficacy is <<>> (null) or <<[hip, vertebral]>>; "Huefte" stands for "Hüfte"
formatEfficacyHint(efficacy) ==
    IF IsNull(efficacy) THEN "unklar"
    ELSE IF Val(efficacy).hip /\ Val(efficacy).vertebral THEN "Huefte + Wirbel"
    ELSE IF Val(efficacy).vertebral THEN "Wirbel"
    ELSE IF Val(efficacy).hip THEN "Huefte"
    ELSE "unklar"

formatEvidenceChip(level) ==
    IF IsNull(level) THEN "Evidenz unklar"
    ELSE CASE Val(level) = "A" -> "Evidenz A"
           [] Val(level) = "B" -> "Evidenz B"
           [] Val(level) = "C" -> "Evidenz C"

\* evidence?.evidence_level ?? null
LevelOf(evidence) == IF IsNull(evidence) THEN Null ELSE Some(Val(evidence).evidence_level)

\* a comparator that looks at the substance ids only
compareRankedIdOnly(a, b) == localeCompare(a.substance_id, b.substance_id)

\* the comparator of withEvidence.sort, lines 72-92
compareRanked(a, b) ==
    LET levelDiff == getEvidenceLevelOrder(LevelOf(a.evidence))
                     - getEvidenceLevelOrder(LevelOf(b.evidence))
        aHip == IF IsNull(a.evidence) THEN FALSE ELSE Val(a.evidence).fracture_efficacy.hip
        bHip == IF IsNull(b.evidence) THEN FALSE ELSE Val(b.evidence).fracture_efficacy.hip
        aVert == IF IsNull(a.evidence) THEN FALSE
                 ELSE Val(a.evidence).fracture_efficacy.vertebral
        bVert == IF IsNull(b.evidence) THEN FALSE
                 ELSE Val(b.evidence).fracture_efficacy.vertebral
    IN IF levelDiff # 0 THEN levelDiff
       ELSE IF aHip # bHip THEN (IF bHip THEN 1 ELSE -1)
       ELSE IF aVert # bVert THEN (IF bVert THEN 1 ELSE -1)
       ELSE localeCompare(a.substance_id, b.substance_id)

\* Array.prototype.sort with compareRanked: stable, x goes before the first
\* element it compares negative to
SortRanked(s) ==
    LET Insert(sorted, x) ==
            LET after == {j \in 1..Len(sorted) : compareRanked(x, sorted[j]) < 0}
                at == IF after = {} THEN Len(sorted) + 1
                      ELSE CHOOSE j \in after : \A k \in after : j <= k
            IN SubSeq(sorted, 1, at - 1) \o <<x>> \o SubSeq(sorted, at, Len(sorted))
        F[i \in 0..Len(s)] == IF i = 0 THEN <<>> ELSE Insert(F[i - 1], s[i])
    IN F[Len(s)]

rankSubstancesByEvidence(evidenceTable, allowedSubstances) ==
    LET withEvidence ==                                                       \* 55-69
            [i \in 1..Len(allowedSubstances) |->
                LET evidence == getEvidenceFor(evidenceTable, allowedSubstances[i])
                IN [substance_id |-> allowedSubstances[i],
                    evidence |-> evidence,
                    ui |-> [evidenceChip |-> formatEvidenceChip(LevelOf(evidence)),
                            efficacyHint |-> formatEfficacyHint(
                                IF IsNull(evidence) THEN Null
                                ELSE Some(Val(evidence).fracture_efficacy))]]]
    IN SortRanked(withEvidence)                                               \* 72-94

\* the registry and the evidence table of the whole-App specification
AppRegistry ==
    [substances |-> << RegEntry("alendronate", "antiresorptive", TRUE),
                       RegEntry("denosumab", "antiresorptive", FALSE),
                       RegEntry("zoledronate", "antiresorptive", TRUE),
                       RegEntry("romosozumab", "osteoanabolic", TRUE),
                       RegEntry("teriparatide", "osteoanabolic", TRUE) >>]

AppEvidenceTable ==
    [substances |-> << EvEntry("zoledronate", "A", TRUE, TRUE),
                       EvEntry("alendronate", "A", TRUE, TRUE),
                       EvEntry("teriparatide", "A", FALSE, TRUE) >>]

(***************************************************************************)
(* App: the memos                                                           *)
(***************************************************************************)
availableRfs == getRiskFactorsForCalculation(catalog)

displayRfs ==
    LET calcRfs == getRiskFactorsForCalculation(catalog)
        allRfs == getAllRiskFactors(catalog)
        TriggerOnly(rf) == rf.included_in_risk_calc = FALSE
                           /\ (rf.imminent_rr = TRUE \/ rf.strong_irreversible_A = TRUE)
    IN calcRfs \o SelectSeq(allRfs, TriggerOnly)

megIndex == buildMegIndex(catalog)

computedAgeBin == IF IsNull(age) THEN Null ELSE ageBin(Val(age))

\* variant that also treats a T-score of exactly 0.0 as out of scope
isTscoreOutOfScopeFromZero == ~IsNull(tscoreTotalHip) /\ Val(tscoreTotalHip) >= 0

isTscoreOutOfScope == ~IsNull(tscoreTotalHip) /\ Val(tscoreTotalHip) > 0

isOutOfScope == ~IsNull(age) /\ Val(age) < 50

top2Rfs == selectTop2RiskFactors(selectedRfIds, availableRfs)

combinedMultiplier == computeCombinedMultiplier(top2Rfs)

\* triggers that look at the calculation-eligible factors only
TriggersOfCalcRfs(selectedRfs) ==
    LET Imm(rf) == rf.imminent_rr = TRUE /\ rf.included_in_risk_calc = TRUE
        Strong(rf) == rf.strong_irreversible_A = TRUE /\ rf.included_in_risk_calc = TRUE
        imminent == \E i \in 1..Len(selectedRfs) : Imm(selectedRfs[i])
        strongIrreversibleA == \E i \in 1..Len(selectedRfs) : Strong(selectedRfs[i])
    IN [imminent |-> imminent,
        strongIrreversibleA |-> strongIrreversibleA,
        triggerPresent |-> imminent \/ strongIrreversibleA,
        imminentRfs |-> SelectSeq(selectedRfs, Imm),
        strongIrreversibleARfs |-> SelectSeq(selectedRfs, Strong)]

\* triggers whose triggerPresent follows the imminent trigger alone
TriggersImminentOnly(selectedRfs) ==
    LET Imm(rf) == rf.imminent_rr = TRUE
        Strong(rf) == rf.strong_irreversible_A = TRUE
        imminent == \E i \in 1..Len(selectedRfs) : Imm(selectedRfs[i])
    IN [imminent |-> imminent,
        strongIrreversibleA |-> \E i \in 1..Len(selectedRfs) : Strong(selectedRfs[i]),
        triggerPresent |-> imminent,
        imminentRfs |-> SelectSeq(selectedRfs, Imm),
        strongIrreversibleARfs |-> SelectSeq(selectedRfs, Strong)]

\* the triggers of the memo results, from the selected factors of the catalog
Triggers(selectedRfs) ==
    LET Imm(rf) == rf.imminent_rr = TRUE
        Strong(rf) == rf.strong_irreversible_A = TRUE
        imminent == \E i \in 1..Len(selectedRfs) : Imm(selectedRfs[i])
        strongIrreversibleA == \E i \in 1..Len(selectedRfs) : Strong(selectedRfs[i])
    IN [imminent |-> imminent,
        strongIrreversibleA |-> strongIrreversibleA,
        triggerPresent |-> imminent \/ strongIrreversibleA,
        imminentRfs |-> SelectSeq(selectedRfs, Imm),
        strongIrreversibleARfs |-> SelectSeq(selectedRfs, Strong)]

\* one tier of the memo results: the cell looked up, or the Error thrown
TierCell(thresholdPercent) ==
    IF IsNull(tscoreTotalHip)
    THEN [threw |-> FALSE,
          cell |-> lookupNoBmdCell(bundle, sex, thresholdPercent, Val(computedAgeBin))]
    ELSE LET table == FindTable(bundle, sex, thresholdPercent)
             mapped == mapTscoreToBin(Val(tscoreTotalHip),
                                      getAvailableTscoreBins(Val(table)))
         IN IF IsNull(table) THEN [threw |-> FALSE, cell |-> Null]
            ELSE IF mapped.threw THEN [threw |-> TRUE, cell |-> Null]
            ELSE [threw |-> FALSE,
                  cell |-> lookupCell(bundle, sex, thresholdPercent,
                                      Val(computedAgeBin), Some(mapped.bin))]

TierThresholdNoOverride(cell, usedBmd, multiplier) ==
    isThresholdReached(cell, multiplier)

TierThreshold(cell, usedBmd, multiplier) ==
    IF ~usedBmd /\ multiplier = One /\ ~IsNull(cell)
    THEN [reached |-> FALSE, reason |-> "Schwelle nicht erreicht (ohne RF)"]
    ELSE isThresholdReached(cell, multiplier)

\* status "null": no result; "threw": the memo threw; "ok": the result object
results ==
    IF sex = "null" \/ IsNull(computedAgeBin) THEN [status |-> "null"]
    ELSE IF isTscoreOutOfScope THEN [status |-> "null"]
    ELSE
      LET usedBmd == ~IsNull(tscoreTotalHip)
          c3 == TierCell(3)
          c5 == TierCell(5)
          c10 == TierCell(10)
          multiplier == combinedMultiplier
          threshold3 == TierThreshold(c3.cell, usedBmd, multiplier)
          threshold5 == TierThreshold(c5.cell, usedBmd, multiplier)
          threshold10 == TierThreshold(c10.cell, usedBmd, multiplier)
          InSel(rf) == rf.rf_id \in selectedRfIds
          selectedRfs == SelectSeq(getAllRiskFactors(catalog), InSel)
          triggers == Triggers(selectedRfs)                                   \* 412-419
          triggerPresent == triggers.triggerPresent
          band == highestReachedBand(threshold3.reached, threshold5.reached,
                                     threshold10.reached)
          recommendation ==                                                   \* 421-433
              IF band = ">=10%" THEN "Therapie indiziert (hoch)"
              ELSE IF band = "5-<10%" THEN "Therapie empfohlen"
              ELSE IF band = "3-<5%" /\ triggerPresent THEN "Therapie kann erwogen werden"
              ELSE "Keine spezifische Therapie; Praevention / Verlauf"
          therapyPlan == deriveTherapyPlan(band, triggerPresent)              \* 436
          rankedSubstances == rankSubstancesByEvidence(AppEvidenceTable,      \* 439-442
              getCandidateSubstances(AppRegistry, therapyPlan.strategy))
      IN IF c3.threw \/ c5.threw \/ c10.threw THEN [status |-> "threw"]
         ELSE [status |-> "ok",
               ageBin |-> Val(computedAgeBin),
               reached3 |-> threshold3.reached,
               reached5 |-> threshold5.reached,
               reached10 |-> threshold10.reached,
               band |-> highestReachedBand(threshold3.reached, threshold5.reached,
                                           threshold10.reached),
               usedBmd |-> usedBmd,
               multiplier |-> multiplier,
               top2Rfs |-> top2Rfs,
               thresholdDetails |->
                  [threshold3 |-> [requiredFactor |-> c3.cell,
                                   reached |-> threshold3.reached,
                                   reason |-> threshold3.reason],
                   threshold5 |-> [requiredFactor |-> c5.cell,
                                   reached |-> threshold5.reached,
                                   reason |-> threshold5.reason],
                   threshold10 |-> [requiredFactor |-> c10.cell,
                                    reached |-> threshold10.reached,
                                    reason |-> threshold10.reason]],
               recommendation |-> recommendation,
               therapyPlan |-> therapyPlan,
               rankedSubstances |-> rankedSubstances,
               triggers |-> triggers]

(***************************************************************************)
(* App: the handlers                                                        *)
(***************************************************************************)
Ages == {Null, Some(49), Some(50), Some(67)}
TScores == {Null, Some(50), Some(0), Some(-130)}
UnknownRfId == "rf_unknown"
NoCall == [op |-> "none"]

setSex(v) ==
    /\ sex' = v
    /\ UNCHANGED <<age, tscoreTotalHip, selectedRfIds, expandedMegs, catalog, bundle, call>>

setAge(v) ==
    /\ age' = v
    /\ UNCHANGED <<sex, tscoreTotalHip, selectedRfIds, expandedMegs, catalog, bundle, call>>

setTscoreTotalHip(v) ==
    /\ tscoreTotalHip' = v
    /\ UNCHANGED <<sex, age, selectedRfIds, expandedMegs, catalog, bundle, call>>

toggleMegExpanded(megId) ==
    /\ expandedMegs' = IF megId \in expandedMegs THEN expandedMegs \ {megId}
                       ELSE expandedMegs \cup {megId}
    /\ UNCHANGED <<sex, age, tscoreTotalHip, selectedRfIds, catalog, bundle, call>>

\* variant of the found branch without the auto-collapse of lines 315-328
toggleRfFoundNoCollapse(current, expanded, toggledRf) ==
    LET rfId == toggledRf.rf_id
        updated == enforceMegRules(current, toggledRf, megIndex, displayRfs).ret
        megId == MapGet(megIndex.rfToMeg, rfId)
    IN [selectedRfIds |-> updated,
        expandedMegs |-> IF megId # "" /\ rfId \in updated
                         THEN expanded \cup {megId} ELSE expanded]

\* toggleRf past its early return (lines 296-328), as a function of the two
\* signals it reads and writes: the selection and the expanded MEGs after it
toggleRfFound(current, expanded, toggledRf) ==
    LET shown == displayRfs
        idx == megIndex
        rfId == toggledRf.rf_id
        updated == enforceMegRules(current, toggledRf, idx, shown).ret  \* 297
        megId == MapGet(idx.rfToMeg, rfId)                       \* 301
        \* 302-312: auto-expand
        afterExpand == IF megId # "" /\ rfId \in updated
                       THEN expanded \cup {megId} ELSE expanded
        \* 315-328: auto-collapse
        hasSelectedRf ==
            \E id \in Range(idx.megToRfs[megId].rfIds) : id \in updated
        afterCollapse == IF megId # "" /\ megId \in DOMAIN idx.megToRfs
                            /\ ~hasSelectedRf
                         THEN afterExpand \ {megId} ELSE afterExpand
    IN [selectedRfIds |-> updated,                               \* 298
        expandedMegs |-> afterCollapse]

\* variant without the early return: an id that displayRfs does not hold is
\* toggled in the selection as it stands
toggleRfOnNoLookup(current, expanded, rfId) ==
    LET shown == displayRfs
        found == {i \in 1..Len(shown) : shown[i].rf_id = rfId}
        megId == MapGet(megIndex.rfToMeg, rfId)
    IN IF found = {}
       THEN IF rfId \in current
            THEN [selectedRfIds |-> current \ {rfId}, expandedMegs |-> expanded]
            ELSE [selectedRfIds |-> current \cup {rfId},
                  expandedMegs |-> IF megId # "" THEN expanded \cup {megId}
                                   ELSE expanded]
       ELSE toggleRfFound(current, expanded,
                shown[CHOOSE i \in found : \A k \in found : i <= k])

\* toggleRf as a function of the selection and the expanded MEGs it is
\* called in
toggleRfOn(current, expanded, rfId) ==
    LET shown == displayRfs
        found == {i \in 1..Len(shown) : shown[i].rf_id = rfId}          \* 289
    IN IF found = {}
       THEN [selectedRfIds |-> current, expandedMegs |-> expanded]    \* 291-294
       ELSE toggleRfFound(current, expanded,
                shown[CHOOSE i \in found : \A k \in found : i <= k])

toggleRf(rfId) ==
    LET after == toggleRfOn(selectedRfIds, expandedMegs, rfId)
    IN /\ selectedRfIds' = after.selectedRfIds
       /\ expandedMegs' = after.expandedMegs
       /\ UNCHANGED <<sex, age, tscoreTotalHip, catalog, bundle, call>>

\* the MEGs the risk-factor groups render a toggle for (memo groupedRfs)
RenderedMegs ==
    LET shown == displayRfs
        idx == megIndex
    IN {MapGet(idx.rfToMeg, shown[i].rf_id) : i \in 1..Len(shown)} \ {""}

Init ==
    /\ sex = "null"
    /\ age = Null
    /\ tscoreTotalHip = Null
    /\ selectedRfIds = {}
    /\ expandedMegs = {}
    /\ catalog = AppCatalog
    /\ bundle \in Bundles
    /\ call = NoCall

Next ==
    \/ \E v \in {"female", "male"} : setSex(v)
    \/ \E v \in Ages : setAge(v)
    \/ \E v \in TScores : setTscoreTotalHip(v)
    \/ \E rfId \in RfIdsOf(catalog.risk_factors) \cup {UnknownRfId} : toggleRf(rfId)
    \/ \E megId \in RenderedMegs : toggleMegExpanded(megId)

Spec == Init /\ [][Next]_vars

(***************************************************************************)
(* The selection handlers alone, for every catalog                         *)
(***************************************************************************)
InitSelection ==
    /\ sex = "null"
    /\ age = Null
    /\ tscoreTotalHip = Null
    /\ selectedRfIds = {}
    /\ expandedMegs = {}
    /\ catalog \in Catalogs
    /\ bundle = BundleComplete
    /\ call = NoCall

NextSelection ==
    \/ \E rfId \in RfIdsOf(catalog.risk_factors) \cup {UnknownRfId} : toggleRf(rfId)
    \/ \E megId \in RenderedMegs : toggleMegExpanded(megId)

SpecSelection == InitSelection /\ [][NextSelection]_vars

(***************************************************************************)
(* The functions of rfCatalog.ts and rfSelection.ts applied to every       *)
(* selection of every catalog                                              *)
(***************************************************************************)
CallBuildMegIndex ==
    /\ call = NoCall
    /\ call' = [op |-> "buildMegIndex", result |-> buildMegIndex(catalog)]
    /\ UNCHANGED <<sex, age, tscoreTotalHip, selectedRfIds, expandedMegs, catalog, bundle>>

CallEnforceMegRules(selected, i) ==
    LET toggledRf == catalog.risk_factors[i]
        r == enforceMegRules(selected, toggledRf, buildMegIndex(catalog),
                             catalog.risk_factors)
    IN /\ call = NoCall
       /\ call' = [op |-> "enforceMegRules", selected |-> selected,
                   toggled |-> toggledRf.rf_id, arg |-> r.arg, ret |-> r.ret]
       /\ UNCHANGED <<sex, age, tscoreTotalHip, selectedRfIds, expandedMegs, catalog, bundle>>

\* the memos top2Rfs and combinedMultiplier for a selection
CallSelectTop2RiskFactors(selected) ==
    LET top == selectTop2RiskFactors(selected, getRiskFactorsForCalculation(catalog))
    IN /\ call = NoCall
       /\ call' = [op |-> "selectTop2RiskFactors", selected |-> selected,
                   result |-> top, multiplier |-> computeCombinedMultiplier(top)]
       /\ UNCHANGED <<sex, age, tscoreTotalHip, selectedRfIds, expandedMegs, catalog, bundle>>

InitCatalogFns == InitSelection

NextCatalogFns ==
    \/ CallBuildMegIndex
    \/ \E selected \in SUBSET RfIdsOf(catalog.risk_factors),
          i \in 1..Len(catalog.risk_factors) : CallEnforceMegRules(selected, i)
    \/ \E selected \in SUBSET RfIdsOf(catalog.risk_factors) :
          CallSelectTop2RiskFactors(selected)

SpecCatalogFns == InitCatalogFns /\ [][NextCatalogFns]_vars

(***************************************************************************)
(* The numeric functions of rfSelection.ts applied to values               *)
(***************************************************************************)
\* the required factors of the tables, and null
RequiredFactors == {Null} \cup {Some(DblLit(h)) : h \in {90, 100, 210, 400}}

\* the multipliers: 1.0, single factors, products, and required factors
\* less 1e-10, 1e-9 and 1e-8
RrValues == {DblLit(h) : h \in {140, 150, 200, 300}}

Multipliers ==
    {One} \cup RrValues \cup {DblMul(a, b) : a, b \in RrValues}
        \cup {DblLit(h) : h \in {90, 210, 400}}
        \cup {DblSubTiny(DblLit(h), k) : h \in {90, 100, 210, 400}, k \in {1, 10, 100}}

\* lists of chosen factors; a list of three is cut to its first two by the caller
ChosenLists ==
    LET infos == {[rf |-> RfPool[i], poolSource |-> src] :
                    i \in 1..Len(RfPool), src \in {"G1_STURZ", "G3_OTHER_1"}}
    IN {<<>>} \cup {<<x>> : x \in infos} \cup {<<x, y>> : x, y \in infos}

CallComputeCombinedMultiplier(chosenRfs) ==
    /\ call = NoCall
    /\ call' = [op |-> "computeCombinedMultiplier", chosenRfs |-> chosenRfs,
                result |-> computeCombinedMultiplier(chosenRfs)]
    /\ UNCHANGED <<sex, age, tscoreTotalHip, selectedRfIds, expandedMegs, catalog, bundle>>

CallIsThresholdReached(requiredFactor, multiplier) ==
    /\ call = NoCall
    /\ call' = [op |-> "isThresholdReached", requiredFactor |-> requiredFactor,
                multiplier |-> multiplier,
                result |-> isThresholdReached(requiredFactor, multiplier)]
    /\ UNCHANGED <<sex, age, tscoreTotalHip, selectedRfIds, expandedMegs, catalog, bundle>>

NextValueFns ==
    \/ \E chosenRfs \in ChosenLists : CallComputeCombinedMultiplier(chosenRfs)
    \/ \E requiredFactor \in RequiredFactors, multiplier \in Multipliers :
          CallIsThresholdReached(requiredFactor, multiplier)

InitValueFns ==
    /\ sex = "null"
    /\ age = Null
    /\ tscoreTotalHip = Null
    /\ selectedRfIds = {}
    /\ expandedMegs = {}
    /\ catalog = AppCatalog
    /\ bundle = BundleComplete
    /\ call = NoCall

SpecValueFns == InitValueFns /\ [][NextValueFns]_vars

(***************************************************************************)
(* The functions of lookup.ts, therapy.ts and substanceRanking.ts applied  *)
(* to values, for every registry and evidence table                        *)
(***************************************************************************)
MaxAge == 95
MaxRegistryLen == 3
MaxEvidenceLen == 2
MaxCandidates == 3

AgeYears == 0..MaxAge
RiskBands == {"<3%", "3-<5%", "5-<10%", ">=10%"}
TherapyStrategies == {"none", "consider_antiresorptive", "antiresorptive",
                      "osteoanabolic_start"}

\* the substances registries are made of, with their therapy class
RegistryPool ==
    << [substance_id |-> "romosozumab",   therapy_class |-> "osteoanabolic"],
       [substance_id |-> "abaloparatide", therapy_class |-> "osteoanabolic"],
       [substance_id |-> "alendronate",   therapy_class |-> "antiresorptive"],
       [substance_id |-> "teriparatide",  therapy_class |-> "osteoanabolic"],
       [substance_id |-> "denosumab",     therapy_class |-> "antiresorptive"] >>

\* every choice of MaxRegistryLen substances, in both orders, with every
\* assignment of the active flag
Registries ==
    { [substances |->
          [i \in 1..Len(l) |-> RegEntry(l[i].substance_id, l[i].therapy_class, act[i])]] :
      l \in {Pick(p, I) : p \in {RegistryPool, Reverse(RegistryPool)},
                          I \in {J \in SUBSET (1..Len(RegistryPool)) :
                                    Cardinality(J) = MaxRegistryLen}},
      act \in [1..MaxRegistryLen -> BOOLEAN] }

\* the entries evidence tables are made of; denosumab has two alternative entries
EvidencePool ==
    << EvEntry("zoledronate",  "A", TRUE,  TRUE),
       EvEntry("alendronate",  "A", TRUE,  TRUE),
       EvEntry("denosumab",    "A", FALSE, TRUE),
       EvEntry("romosozumab",  "B", TRUE,  TRUE),
       EvEntry("denosumab",    "B", TRUE,  FALSE),
       EvEntry("teriparatide", "C", FALSE, FALSE) >>

EvidenceTables ==
    { [substances |-> Pick(EvidencePool, I)] :
      I \in {J \in SUBSET (1..Len(EvidencePool)) : Cardinality(J) <= MaxEvidenceLen} }

\* the lists of up to MaxCandidates substance ids, repetitions included
CandidateLists ==
    UNION { [1..n -> Range(SubstanceIds)] : n \in 0..MaxCandidates }

MaxBins == 3

\* the bin values of the tables (hundredths) and the scores mapped to them
BinPool == {0, -100, -200, -250}
TscoreValues == {50, 0, -50, -100, -130, -200, -220, -250, -300}

\* the bin lists of up to MaxBins bins, in every order, repetitions included
BinLists == UNION { [1..n -> BinPool] : n \in 0..MaxBins }

CallMapTscoreToBin(tscore, availableBins) ==
    /\ call = NoCall
    /\ call' = [op |-> "mapTscoreToBin", tscore |-> tscore,
                availableBins |-> availableBins,
                result |-> mapTscoreToBin(tscore, availableBins)]
    /\ UNCHANGED <<sex, age, tscoreTotalHip, selectedRfIds, expandedMegs, catalog, bundle>>

CallAgeBin(ageYears) ==
    /\ call = NoCall
    /\ call' = [op |-> "ageBin", ageYears |-> ageYears, result |-> ageBin(ageYears)]
    /\ UNCHANGED <<sex, age, tscoreTotalHip, selectedRfIds, expandedMegs, catalog, bundle>>

CallHighestReachedBand(reached3, reached5, reached10) ==
    /\ call = NoCall
    /\ call' = [op |-> "highestReachedBand", reached3 |-> reached3,
                reached5 |-> reached5, reached10 |-> reached10,
                result |-> highestReachedBand(reached3, reached5, reached10)]
    /\ UNCHANGED <<sex, age, tscoreTotalHip, selectedRfIds, expandedMegs, catalog, bundle>>

CallDeriveTherapyPlan(riskBand, triggerPresent) ==
    /\ call = NoCall
    /\ call' = [op |-> "deriveTherapyPlan", riskBand |-> riskBand,
                triggerPresent |-> triggerPresent,
                result |-> deriveTherapyPlan(riskBand, triggerPresent)]
    /\ UNCHANGED <<sex, age, tscoreTotalHip, selectedRfIds, expandedMegs, catalog, bundle>>

CallGetCandidateSubstances(registry, strategy) ==
    /\ call = NoCall
    /\ call' = [op |-> "getCandidateSubstances", registry |-> registry,
                strategy |-> strategy,
                result |-> getCandidateSubstances(registry, strategy)]
    /\ UNCHANGED <<sex, age, tscoreTotalHip, selectedRfIds, expandedMegs, catalog, bundle>>

CallRankSubstancesByEvidence(evidenceTable, allowedSubstances) ==
    /\ call = NoCall
    /\ call' = [op |-> "rankSubstancesByEvidence", evidenceTable |-> evidenceTable,
                allowedSubstances |-> allowedSubstances,
                result |-> rankSubstancesByEvidence(evidenceTable, allowedSubstances)]
    /\ UNCHANGED <<sex, age, tscoreTotalHip, selectedRfIds, expandedMegs, catalog, bundle>>

InitTherapyFns ==
    /\ sex = "null"
    /\ age = Null
    /\ tscoreTotalHip = Null
    /\ selectedRfIds = {}
    /\ expandedMegs = {}
    /\ catalog = AppCatalog
    /\ bundle = BundleComplete
    /\ call = NoCall

NextTherapyFns ==
    \/ \E ageYears \in AgeYears : CallAgeBin(ageYears)
    \/ \E tscore \in TscoreValues, availableBins \in BinLists :
          CallMapTscoreToBin(tscore, availableBins)
    \/ \E reached3 \in BOOLEAN, reached5 \in BOOLEAN, reached10 \in BOOLEAN :
          CallHighestReachedBand(reached3, reached5, reached10)
    \/ \E riskBand \in RiskBands, triggerPresent \in BOOLEAN :
          CallDeriveTherapyPlan(riskBand, triggerPresent)
    \/ \E registry \in Registries, strategy \in TherapyStrategies :
          CallGetCandidateSubstances(registry, strategy)
    \/ \E evidenceTable \in EvidenceTables, allowedSubstances \in CandidateLists :
          CallRankSubstancesByEvidence(evidenceTable, allowedSubstances)

SpecTherapyFns == InitTherapyFns /\ [][NextTherapyFns]_vars

(***************************************************************************)
(* The catalog read directly, for stating properties of the index          *)
(***************************************************************************)
\* the ids of the risk factors whose mutual_exclusion_group_id is m
CatalogMembers(cat, m) ==
    {cat.risk_factors[i].rf_id :
        i \in {j \in 1..Len(cat.risk_factors) :
                  cat.risk_factors[j].mutual_exclusion_group_id = m}}

CatalogMegIds(cat) ==
    {cat.risk_factors[i].mutual_exclusion_group_id : i \in 1..Len(cat.risk_factors)}
        \ {""}

\* the mode of MEG m: the declared one, else that of its first member, else
\* single_choice_optional
CatalogMegMode(cat, m) ==
    LET megs == cat.mutual_exclusion_groups
        rfs == cat.risk_factors
        decl == {i \in 1..Len(megs) : megs[i].id = m}
        mem == {i \in 1..Len(rfs) : rfs[i].mutual_exclusion_group_id = m}
        first == CHOOSE i \in mem : \A k \in mem : i <= k
    IN IF decl # {} THEN megs[CHOOSE i \in decl : \A k \in decl : i >= k].mode
       ELSE IF rfs[first].exclusion_mode # "" THEN rfs[first].exclusion_mode
       ELSE SINGLE

ExclusiveMegs(cat) == {m \in CatalogMegIds(cat) : CatalogMegMode(cat, m) = SINGLE}

RfById(cat, id) ==
    cat.risk_factors[CHOOSE i \in 1..Len(cat.risk_factors) : cat.risk_factors[i].rf_id = id]

(***************************************************************************)
(* C1: in every selection reached from the empty one by toggleRf, each     *)
(* MEG of mode single_choice_optional has at most one selected member.     *)
(***************************************************************************)
C1_AtMostOnePerExclusiveMeg ==
    \A m \in ExclusiveMegs(catalog) :
        Cardinality(selectedRfIds \cap CatalogMembers(catalog, m)) <= 1

\* an exclusive MEG with two displayable members holds one selection while
\* two members of another MEG are selected together
C1_Witness ==
    \E m \in ExclusiveMegs(catalog) :
        /\ Cardinality(CatalogMembers(catalog, m) \cap RfIdsOf(displayRfs)) >= 2
        /\ Cardinality(selectedRfIds \cap CatalogMembers(catalog, m)) = 1
        /\ \E m2 \in CatalogMegIds(catalog) \ {m} :
              Cardinality(selectedRfIds \cap CatalogMembers(catalog, m2)) = 2

(***************************************************************************)
(* C2: enforceMegRules leaves the set it is given unchanged and returns    *)
(* S \ {f} when f is in S, (S less the other members of f's MEG) plus f    *)
(* when f is not in S and the MEG is single_choice_optional, S plus f      *)
(* otherwise; nothing outside f's MEG changes, deselecting adds nothing.   *)
(***************************************************************************)
C2_Expected(S, f) ==
    LET m == RfById(catalog, f).mutual_exclusion_group_id
    IN IF f \in S THEN S \ {f}
       ELSE IF m # "" /\ CatalogMegMode(catalog, m) = SINGLE
            THEN (S \ (CatalogMembers(catalog, m) \ {f})) \cup {f}
       ELSE S \cup {f}

C2_EnforceMegRulesEffect ==
    call.op = "enforceMegRules" =>
        LET S == call.selected
            f == call.toggled
            m == RfById(catalog, f).mutual_exclusion_group_id
            changed == (call.ret \ S) \cup (S \ call.ret)
        IN /\ call.arg = S
           /\ call.ret = C2_Expected(S, f)
           /\ changed \subseteq ({f} \cup (IF m = "" THEN {} ELSE CatalogMembers(catalog, m)))
           /\ (f \in S => call.ret \subseteq S)

\* selecting into an exclusive MEG that already holds two other members
C2_Witness ==
    /\ call.op = "enforceMegRules"
    /\ call.toggled \notin call.selected
    /\ \E m \in ExclusiveMegs(catalog) :
          /\ call.toggled \in CatalogMembers(catalog, m)
          /\ Cardinality(call.selected \cap CatalogMembers(catalog, m)) >= 2
          /\ call.ret \cap CatalogMembers(catalog, m) = {call.toggled}
    /\ call.ret \ {call.toggled} # {}

(***************************************************************************)
(* C3: in the index of buildMegIndex a risk factor is listed in            *)
(* megToRfs[m].rfIds iff rfToMeg maps it to m, so it is listed under at    *)
(* most one MEG; a risk factor without MEG reference maps to null and is   *)
(* listed nowhere.                                                         *)
(***************************************************************************)
C3_MegIndexConsistent ==
    call.op = "buildMegIndex" =>
        LET idx == call.result
            ids == RfIdsOf(catalog.risk_factors)
            Listed(r, m) == r \in Range(idx.megToRfs[m].rfIds)
        IN /\ DOMAIN idx.rfToMeg = ids
           /\ \A r \in ids : \A m \in DOMAIN idx.megToRfs :
                 Listed(r, m) <=> idx.rfToMeg[r] = m
           /\ \A r \in ids : Cardinality({m \in DOMAIN idx.megToRfs : Listed(r, m)}) <= 1
           /\ \A r \in ids :
                 RfById(catalog, r).mutual_exclusion_group_id = ""
                    => /\ idx.rfToMeg[r] = ""
                       /\ \A m \in DOMAIN idx.megToRfs : ~Listed(r, m)
           /\ \A r \in ids :
                 RfById(catalog, r).mutual_exclusion_group_id # ""
                    => idx.rfToMeg[r] \in DOMAIN idx.megToRfs

\* an index holding a declared MEG with a member, an undeclared MEG with two
\* members, and a risk factor without MEG
C3_Witness ==
    /\ call.op = "buildMegIndex"
    /\ Len(call.result.megToRfs["meg_fall"].rfIds) >= 1
    /\ "meg_other" \in DOMAIN call.result.megToRfs
    /\ Len(call.result.megToRfs["meg_other"].rfIds) = 2
    /\ \E r \in DOMAIN call.result.rfToMeg : call.result.rfToMeg[r] = ""

(***************************************************************************)
(* C4: selectTop2RiskFactors returns at most two factors, at most one of   *)
(* group G1_STURZ and at most one of G2_RA_GC, each selected and           *)
(* calculation-eligible, and the combined multiplier is 1.0, the one       *)
(* rr_3y or the product of the two rr_3y of exactly those factors.         *)
(***************************************************************************)
C4_Top2Bounds ==
    call.op = "selectTop2RiskFactors" =>
        LET top == call.result
            OfGroup(g) == {i \in 1..Len(top) : top[i].rf.group = g}
        IN /\ Len(top) <= 2
           /\ Cardinality(OfGroup("G1_STURZ")) <= 1
           /\ Cardinality(OfGroup("G2_RA_GC")) <= 1
           /\ \A i \in 1..Len(top) :
                 /\ top[i].rf.rf_id \in call.selected
                 /\ top[i].rf.included_in_risk_calc = TRUE
                 /\ top[i].rf \in Range(catalog.risk_factors)
           /\ call.multiplier =
                 (IF Len(top) = 0 THEN One
                  ELSE IF Len(top) = 1 THEN top[1].rf.rr_3y
                  ELSE DblMul(top[1].rf.rr_3y, top[2].rf.rr_3y))

\* two factors are kept out of four selected ones, one of them not
\* calculation-eligible and of higher rr_3y than both kept
C4_Witness ==
    /\ call.op = "selectTop2RiskFactors"
    /\ Len(call.result) = 2
    /\ Cardinality(call.selected) = 4
    /\ \E id \in call.selected :
          /\ RfById(catalog, id).included_in_risk_calc = FALSE
          /\ DblGt(RfById(catalog, id).rr_3y, call.result[1].rf.rr_3y)

\* the selected calculation-eligible factors of a call, and those of a group
EligibleSelected == {rf \in Range(catalog.risk_factors) :
                        rf.included_in_risk_calc = TRUE /\ rf.rf_id \in call.selected}
EligibleOfGroup(g) == {rf \in EligibleSelected : rf.group = g}

\* P is a pool: one strongest factor of each exclusive group that has a
\* selected factor, and two strongest (or the only one) of G3_OTHER
IsPool(P) ==
    LET Part(g) == P \cap EligibleOfGroup(g)
        Strongest(g) == \A x \in Part(g), y \in EligibleOfGroup(g) \ Part(g) :
                            DblGeq(x.rr_3y, y.rr_3y)
        Min(a, b) == IF a < b THEN a ELSE b
    IN /\ P \subseteq EligibleSelected
       /\ \A rf \in P : rf.group \in {"G1_STURZ", "G2_RA_GC", "G3_OTHER"}
       /\ \A g \in {"G1_STURZ", "G2_RA_GC"} :
             Cardinality(Part(g)) = Min(1, Cardinality(EligibleOfGroup(g))) /\ Strongest(g)
       /\ Cardinality(Part("G3_OTHER")) = Min(2, Cardinality(EligibleOfGroup("G3_OTHER")))
       /\ Strongest("G3_OTHER")

(***************************************************************************)
(* C5: the factors selectTop2RiskFactors returns are the two highest-rr_3y *)
(* members of a pool made of the strongest selected G1 factor, the         *)
(* strongest selected G2 factor and the two strongest selected G3 factors, *)
(* in descending rr_3y order; no pooled factor left out has a strictly     *)
(* greater rr_3y than a returned one.                                      *)
(***************************************************************************)
C5_Top2OfPool ==
    call.op = "selectTop2RiskFactors" =>
        LET top == call.result
            Returned == {top[i].rf : i \in 1..Len(top)}
        IN \E P \in SUBSET EligibleSelected :
              /\ IsPool(P)
              /\ Returned \subseteq P
              /\ Cardinality(Returned) = Len(top)
              /\ Len(top) = (IF Cardinality(P) < 2 THEN Cardinality(P) ELSE 2)
              /\ Len(top) = 2 => DblGeq(top[1].rf.rr_3y, top[2].rf.rr_3y)
              /\ \A x \in P \ Returned, i \in 1..Len(top) :
                    ~DblGt(x.rr_3y, top[i].rf.rr_3y)

\* a pool of three or more whose first-built member (the G1 factor) is
\* weaker than both factors returned
C5_Witness ==
    /\ call.op = "selectTop2RiskFactors"
    /\ Len(call.result) = 2
    /\ EligibleOfGroup("G1_STURZ") # {}
    /\ Cardinality(EligibleSelected) >= 3
    /\ \A i \in 1..2 : call.result[i].rf.group # "G1_STURZ"
    /\ \E x \in EligibleOfGroup("G1_STURZ") :
          DblGt(call.result[2].rf.rr_3y, x.rr_3y)

\* the catalog positions of the strongest selected factors of group g
TiedStrongest(g) ==
    {i \in 1..Len(catalog.risk_factors) :
        /\ catalog.risk_factors[i] \in EligibleOfGroup(g)
        /\ \A y \in EligibleOfGroup(g) :
              DblGeq(catalog.risk_factors[i].rr_3y, y.rr_3y)}

(***************************************************************************)
(* C6: when several selected factors of an exclusive group (G1_STURZ or    *)
(* G2_RA_GC) share the group's highest rr_3y, a factor of that group that  *)
(* selectTop2RiskFactors returns is the tied one that comes first in       *)
(* catalog order, whatever the order in which the ids were selected (the   *)
(* selection is read through Set.has only, here set membership).           *)
(***************************************************************************)
C6_TieKeepsFirstInCatalog ==
    call.op = "selectTop2RiskFactors" =>
        \A g \in {"G1_STURZ", "G2_RA_GC"} :
           Cardinality(TiedStrongest(g)) >= 2 =>
              \A k \in 1..Len(call.result) :
                 call.result[k].rf.group = g =>
                    \E i \in TiedStrongest(g) :
                       /\ call.result[k].rf = catalog.risk_factors[i]
                       /\ \A j \in TiedStrongest(g) : i <= j

\* two selected G1 factors tie and one of them is returned
C6_Witness ==
    /\ call.op = "selectTop2RiskFactors"
    /\ Cardinality(TiedStrongest("G1_STURZ")) >= 2
    /\ \E k \in 1..Len(call.result) : call.result[k].rf.group = "G1_STURZ"

(***************************************************************************)
(* C7: computeCombinedMultiplier returns exactly 1.0 for no factor, the    *)
(* rr_3y of a single factor, and the product of the two rr_3y of two       *)
(* factors, the same in either order.                                      *)
(***************************************************************************)
C7_CombinedMultiplier ==
    call.op = "computeCombinedMultiplier" =>
        LET l == call.chosenRfs
        IN /\ Len(l) = 0 => call.result = Dbl(100, 0, 0)
           /\ Len(l) = 1 => call.result = l[1].rf.rr_3y
           /\ Len(l) = 2 =>
                 /\ call.result = DblMul(l[1].rf.rr_3y, l[2].rf.rr_3y)
                 /\ call.result = computeCombinedMultiplier(<<l[2], l[1]>>)
                 /\ call.result.h * 100 = l[1].rf.rr_3y.h * l[2].rf.rr_3y.h

\* two different factors whose product is not exact in binary: 1.5 x 1.4
C7_Witness ==
    /\ call.op = "computeCombinedMultiplier"
    /\ Len(call.chosenRfs) = 2
    /\ call.chosenRfs[1].rf.rr_3y = DblLit(150)
    /\ call.chosenRfs[2].rf.rr_3y = DblLit(140)
    /\ call.result = Dbl(210, 0, -36)

(***************************************************************************)
(* C8: in an evaluation without T-score whose combined multiplier is       *)
(* exactly 1.0, a tier is reached iff its cell is absent; a numeric cell,  *)
(* even one of at most 1.0, is not reached.                                *)
(***************************************************************************)
TierDetails(r) ==
    {r.thresholdDetails.threshold3, r.thresholdDetails.threshold5,
     r.thresholdDetails.threshold10}

C9_OverrideOnlyWithoutRf ==
    LET r == results
    IN (r.status = "ok" /\ selectedRfIds # {}) =>
          \A d \in TierDetails(r) :
              ~IsNull(d.requiredFactor) =>
                  (d.reached <=> DblGeq(r.multiplier, DblSubTiny(Val(d.requiredFactor), 10)))

(***************************************************************************)
(* C10: for a numeric required factor isThresholdReached reports reached   *)
(* iff multiplier >= requiredFactor - 1e-9; so requiredFactor - 1e-10 is   *)
(* reached, and 1.5 x 1.4 is reached against 2.1.                          *)
(***************************************************************************)
C10_EpsilonTolerance ==
    (call.op = "isThresholdReached" /\ ~IsNull(call.requiredFactor)) =>
        LET req == Val(call.requiredFactor)
            m == call.multiplier
            reached == call.result.reached
        IN /\ reached <=> DblGeq(m, DblSubTiny(req, 10))
           /\ m = DblSubTiny(req, 1) => reached
           /\ (m = DblMul(DblLit(150), DblLit(140)) /\ req = DblLit(210)) => reached
           /\ m.h > req.h => reached
           /\ m.h < req.h => ~reached
           /\ m = DblSubTiny(req, 100) => ~reached

\* the product 1.5 x 1.4, strictly below the double 2.1, is reached against 2.1
C10_Witness ==
    /\ call.op = "isThresholdReached"
    /\ call.requiredFactor = Some(DblLit(210))
    /\ call.multiplier = Dbl(210, 0, -36)
    /\ DblGt(Val(call.requiredFactor), call.multiplier)
    /\ call.result.reached

\* the detail of the tier pct in a result
TierDetail(r, pct) ==
    CASE pct = 3 -> r.thresholdDetails.threshold3
      [] pct = 5 -> r.thresholdDetails.threshold5
      [] pct = 10 -> r.thresholdDetails.threshold10

\* the bundle has no table for the sex and the tier
NoTableFor(pct) ==
    ~\E i \in 1..Len(bundle.tables) :
        bundle.tables[i].sex = sex /\ bundle.tables[i].threshold_percent = pct

\* the table of the tier has no entry at all for the age bin
NoEntryForAgeBin(pct) ==
    \A i \in 1..Len(bundle.tables) :
        (bundle.tables[i].sex = sex /\ bundle.tables[i].threshold_percent = pct) =>
            \A j \in 1..Len(bundle.tables[i].entries) :
                bundle.tables[i].entries[j].age # Val(computedAgeBin)

(***************************************************************************)
(* C11: a tier whose lookup yields no required multiplier (no table for    *)
(* the sex and tier, or no entry for the age bin and density key) is       *)
(* reported reached, whatever the multiplier and with or without T-score.  *)
(***************************************************************************)
C11_AbsentCellReached ==
    LET r == results
    IN r.status = "ok" =>
          \A pct \in {3, 5, 10} :
             /\ IsNull(TierDetail(r, pct).requiredFactor) => TierDetail(r, pct).reached
             /\ (NoTableFor(pct) \/ NoEntryForAgeBin(pct)) =>
                    /\ IsNull(TierDetail(r, pct).requiredFactor)
                    /\ TierDetail(r, pct).reached

\* with a T-score and a selected risk factor, a tier without table is reached
\* while a tier with a numeric cell is not
C11_Witness ==
    LET r == results
    IN /\ r.status = "ok"
       /\ r.usedBmd
       /\ DblGt(r.multiplier, One)
       /\ \E pct \in {3, 5, 10} : NoTableFor(pct) /\ TierDetail(r, pct).reached
       /\ \E pct \in {3, 5, 10} :
             ~IsNull(TierDetail(r, pct).requiredFactor) /\ ~TierDetail(r, pct).reached

(***************************************************************************)
(* C12: highestReachedBand names the highest reached tier for all eight    *)
(* combinations: ">=10%" whenever the 10% tier is reached, else "5-<10%"   *)
(* whenever the 5% tier is reached, else "3-<5%" if the 3% tier is         *)
(* reached, else "<3%".                                                    *)
(***************************************************************************)
C12_HighestReachedBand ==
    call.op = "highestReachedBand" =>
        /\ call.reached10 => call.result = ">=10%"
        /\ (~call.reached10 /\ call.reached5) => call.result = "5-<10%"
        /\ (~call.reached10 /\ ~call.reached5 /\ call.reached3) => call.result = "3-<5%"
        /\ (~call.reached10 /\ ~call.reached5 /\ ~call.reached3) => call.result = "<3%"

\* the 10% tier is reached while the 3% and 5% tiers are not
C12_Witness ==
    /\ call.op = "highestReachedBand"
    /\ call.reached10 /\ ~call.reached5 /\ ~call.reached3
    /\ call.result = ">=10%"

\* the plan of the five-row table: strategy, DVO grade, DEGAM grade
PlanHas(plan, strategy, dvoGrade, degamGrade) ==
    /\ plan.strategy = strategy
    /\ plan.guideline_strength.DVO.grade = dvoGrade
    /\ plan.guideline_strength.DEGAM.grade = degamGrade

(***************************************************************************)
(* C13: deriveTherapyPlan matches the five-row table: <3% gives none with  *)
(* grades "-"/"-"; 3-<5% gives none without trigger and                    *)
(* consider_antiresorptive "0"/"0" with trigger; 5-<10% gives              *)
(* antiresorptive "A"/"A"; >=10% gives osteoanabolic_start with DVO "A"    *)
(* and DEGAM "B".  triggerPresent changes the outcome only in the 3-<5%    *)
(* band, guideline_default is always DEGAM, and DEGAM_SOFTENING is set     *)
(* exactly for the >=10% band.                                             *)
(***************************************************************************)
C13_TherapyPlanTable ==
    call.op = "deriveTherapyPlan" =>
        LET plan == call.result
            band == call.riskBand
        IN /\ band = "<3%" => PlanHas(plan, "none", "-", "-")
           /\ (band = "3-<5%" /\ ~call.triggerPresent) => PlanHas(plan, "none", "-", "-")
           /\ (band = "3-<5%" /\ call.triggerPresent) =>
                  PlanHas(plan, "consider_antiresorptive", "0", "0")
           /\ band = "5-<10%" => PlanHas(plan, "antiresorptive", "A", "A")
           /\ band = ">=10%" => PlanHas(plan, "osteoanabolic_start", "A", "B")
           /\ band # "3-<5%" => plan = deriveTherapyPlan(band, ~call.triggerPresent)
           /\ plan.guideline_default = "DEGAM"
           /\ (plan.deviation_flag = "DEGAM_SOFTENING") <=> (band = ">=10%")
           /\ plan.deviation_flag \in {"DEGAM_SOFTENING", "null"}

\* the one row the trigger decides
C13_Witness ==
    /\ call.op = "deriveTherapyPlan"
    /\ call.riskBand = "3-<5%" /\ call.triggerPresent
    /\ call.result.strategy = "consider_antiresorptive"
    /\ call.result # deriveTherapyPlan("3-<5%", FALSE)

\* the selected factors of the catalog that are left out of the calculation
SelectedTriggerOnly ==
    {rf \in Range(catalog.risk_factors) :
        rf.rf_id \in selectedRfIds /\ rf.included_in_risk_calc = FALSE}

(***************************************************************************)
(* C14: in every evaluation a selected risk factor with                    *)
(* included_in_risk_calc = false is not among the chosen top-2 factors and *)
(* the combined multiplier is the one of the selection without it, yet its *)
(* imminent-risk or strong/irreversible flag makes the corresponding       *)
(* trigger and triggerPresent true.                                        *)
(***************************************************************************)
C14_TriggerOnlyFactor ==
    LET r == results
    IN r.status = "ok" =>
          \A rf \in SelectedTriggerOnly :
             /\ \A i \in 1..Len(r.top2Rfs) : r.top2Rfs[i].rf.rf_id # rf.rf_id
             /\ r.multiplier =
                   computeCombinedMultiplier(
                       selectTop2RiskFactors(selectedRfIds \ {rf.rf_id},
                                             getRiskFactorsForCalculation(catalog)))
             /\ rf.imminent_rr = TRUE =>
                   r.triggers.imminent /\ r.triggers.triggerPresent
             /\ rf.strong_irreversible_A = TRUE =>
                   r.triggers.strongIrreversibleA /\ r.triggers.triggerPresent

\* a trigger-only factor stronger than the two chosen factors is selected
\* with them and is the only source of the imminent trigger
C14_Witness ==
    LET r == results
    IN /\ r.status = "ok"
       /\ Len(r.top2Rfs) = 2
       /\ r.triggers.imminent /\ r.triggers.triggerPresent
       /\ \E rf \in SelectedTriggerOnly :
             /\ rf.imminent_rr = TRUE
             /\ DblGt(rf.rr_3y, r.top2Rfs[1].rf.rr_3y)
             /\ \A x \in Range(catalog.risk_factors) :
                   (x.rf_id \in selectedRfIds /\ x.imminent_rr = TRUE) => x = rf

(***************************************************************************)
(* C15: in every evaluation the imminent trigger is true iff some selected *)
(* catalog factor carries imminent_rr, the strong/irreversible trigger iff *)
(* some selected catalog factor carries strong_irreversible_A,             *)
(* triggerPresent is their disjunction, and each contributing-factor list  *)
(* holds exactly the selected factors carrying that flag.                  *)
(***************************************************************************)
C15_Triggers ==
    LET r == results
        SelectedWith(Flag(_)) ==
            {rf \in Range(catalog.risk_factors) : rf.rf_id \in selectedRfIds /\ Flag(rf)}
        Imm(rf) == rf.imminent_rr = TRUE
        Strong(rf) == rf.strong_irreversible_A = TRUE
    IN r.status = "ok" =>
          /\ r.triggers.imminent <=> (SelectedWith(Imm) # {})
          /\ r.triggers.strongIrreversibleA <=> (SelectedWith(Strong) # {})
          /\ r.triggers.triggerPresent <=>
                (r.triggers.imminent \/ r.triggers.strongIrreversibleA)
          /\ Range(r.triggers.imminentRfs) = SelectedWith(Imm)
          /\ Len(r.triggers.imminentRfs) = Cardinality(SelectedWith(Imm))
          /\ Range(r.triggers.strongIrreversibleARfs) = SelectedWith(Strong)
          /\ Len(r.triggers.strongIrreversibleARfs) = Cardinality(SelectedWith(Strong))

\* the strong/irreversible trigger alone, next to a selected factor without flag
C15_Witness ==
    LET r == results
    IN /\ r.status = "ok"
       /\ ~r.triggers.imminent
       /\ r.triggers.strongIrreversibleA
       /\ r.triggers.triggerPresent
       /\ Len(r.triggers.strongIrreversibleARfs) = 1
       /\ Cardinality(selectedRfIds) >= 2

\* the ids of the active registry entries of a therapy class
ActiveOfClass(registry, therapyClass) ==
    {e.substance_id : e \in {x \in Range(registry.substances) :
                                x.therapy_class = therapyClass /\ x.active}}

(***************************************************************************)
(* C16: for every registry getCandidateSubstances returns the empty list   *)
(* for strategy none, exactly the active antiresorptive registry           *)
(* substances for antiresorptive and consider_antiresorptive, and for      *)
(* osteoanabolic_start only substances whose id is romosozumab or          *)
(* teriparatide (the active osteoanabolic ones among them), so another     *)
(* osteoanabolic entry is excluded whatever its active flag.               *)
(***************************************************************************)
C16_CandidateSubstances ==
    call.op = "getCandidateSubstances" =>
        LET got == call.result
            Exactly(S) == Range(got) = S /\ Len(got) = Cardinality(S)
        IN /\ call.strategy = "none" => got = <<>>
           /\ call.strategy \in {"antiresorptive", "consider_antiresorptive"} =>
                  Exactly(ActiveOfClass(call.registry, "antiresorptive"))
           /\ call.strategy = "osteoanabolic_start" =>
                  /\ Range(got) \subseteq {"romosozumab", "teriparatide"}
                  /\ Exactly(ActiveOfClass(call.registry, "osteoanabolic")
                                \cap {"romosozumab", "teriparatide"})

\* a registry of three osteoanabolic substances, the third one active: it is
\* left out while romosozumab is returned
C16_Witness ==
    /\ call.op = "getCandidateSubstances"
    /\ call.strategy = "osteoanabolic_start"
    /\ Len(call.registry.substances) = 3
    /\ \A i \in 1..3 : call.registry.substances[i].therapy_class = "osteoanabolic"
    /\ "abaloparatide" \in ActiveOfClass(call.registry, "osteoanabolic")
    /\ "romosozumab" \in Range(call.result)
    /\ "abaloparatide" \notin Range(call.result)

\* the orderings of a list
Orderings(s) ==
    {[i \in 1..Len(s) |-> s[f[i]]] :
        f \in {g \in [1..Len(s) -> 1..Len(s)] : \A i, j \in 1..Len(s) : g[i] = g[j] => i = j}}

\* the evidence entry the table holds for an id (the last one listed), or <<>>
EvidenceOf(evidenceTable, id) ==
    LET es == evidenceTable.substances
        hits == {i \in 1..Len(es) : es[i].substance_id = id}
    IN IF hits = {} THEN Null ELSE Some(es[CHOOSE i \in hits : \A k \in hits : k <= i])

\* the key tuple of a ranked substance: level (A, B, C, none), hip efficacy and
\* vertebral efficacy (true first), position of the id in alphabetical order
RankKey(evidenceTable, id) ==
    LET e == EvidenceOf(evidenceTable, id)
    IN << IF IsNull(e) THEN 3
          ELSE CASE Val(e).evidence_level = "A" -> 0
                 [] Val(e).evidence_level = "B" -> 1
                 [] Val(e).evidence_level = "C" -> 2,
          IF ~IsNull(e) /\ Val(e).fracture_efficacy.hip THEN 0 ELSE 1,
          IF ~IsNull(e) /\ Val(e).fracture_efficacy.vertebral THEN 0 ELSE 1,
          CHOOSE i \in 1..Len(SubstanceIds) : SubstanceIds[i] = id >>

\* k1 <= k2 in lexicographic order
LexLeq(k1, k2) ==
    \/ k1 = k2
    \/ \E i \in 1..Len(k1) : k1[i] < k2[i] /\ \A j \in 1..(i - 1) : k1[j] = k2[j]

(***************************************************************************)
(* C17: for every set of candidate ids, rankSubstancesByEvidence returns   *)
(* the same output order for every two orderings of that set.              *)
(***************************************************************************)
C17_RankingPermutationInvariant ==
    call.op = "rankSubstancesByEvidence" =>
        \A other \in Orderings(call.allowedSubstances) :
            rankSubstancesByEvidence(call.evidenceTable, other) = call.result

\* two distinct ids that agree on level and efficacies, given out of order
C17_Witness ==
    /\ call.op = "rankSubstancesByEvidence"
    /\ Len(call.allowedSubstances) >= 2
    /\ \E i, j \in 1..Len(call.allowedSubstances) :
          /\ i < j
          /\ call.allowedSubstances[i] # call.allowedSubstances[j]
          /\ ~IsNull(EvidenceOf(call.evidenceTable, call.allowedSubstances[i]))
          /\ SubSeq(RankKey(call.evidenceTable, call.allowedSubstances[i]), 1, 3)
                = SubSeq(RankKey(call.evidenceTable, call.allowedSubstances[j]), 1, 3)
          /\ localeCompare(call.allowedSubstances[i], call.allowedSubstances[j]) > 0
    /\ [i \in 1..Len(call.result) |-> call.result[i].substance_id] # call.allowedSubstances

(***************************************************************************)
(* C18: in the output of rankSubstancesByEvidence every adjacent pair is   *)
(* in lexicographic order of the key tuple: evidence level (A, B, C,       *)
(* none), hip efficacy (true first), vertebral efficacy (true first),      *)
(* substance id ascending.                                                 *)
(***************************************************************************)
C18_RankingOrder ==
    call.op = "rankSubstancesByEvidence" =>
        \A i \in 1..(Len(call.result) - 1) :
            LexLeq(RankKey(call.evidenceTable, call.result[i].substance_id),
                   RankKey(call.evidenceTable, call.result[i + 1].substance_id))

\* three substances decided by three different keys: level, then hip efficacy
C18_Witness ==
    /\ call.op = "rankSubstancesByEvidence"
    /\ Len(call.result) = 3
    /\ LET k == [i \in 1..3 |-> RankKey(call.evidenceTable, call.result[i].substance_id)]
       IN /\ k[1][1] = k[2][1] /\ k[1][2] < k[2][2]
          /\ k[2][1] < k[3][1]
          /\ k[3][4] < k[1][4]

(***************************************************************************)
(* C19: rankSubstancesByEvidence raises no error when an id has no         *)
(* evidence entry: the output contains every input id as often as the      *)
(* input does, an id without entry carries evidence = null with the        *)
(* "unclear" chip and hint, and every id without entry comes after every   *)
(* id that has one.                                                        *)
(***************************************************************************)
C19_MissingEvidenceRankedLast ==
    call.op = "rankSubstancesByEvidence" =>
        LET got == call.result
            Count(seq, id) == Cardinality({i \in 1..Len(seq) : seq[i] = id})
            gotIds == [i \in 1..Len(got) |-> got[i].substance_id]
            Missing(id) == IsNull(EvidenceOf(call.evidenceTable, id))
        IN /\ Len(got) = Len(call.allowedSubstances)
           /\ \A id \in Range(SubstanceIds) :
                 Count(gotIds, id) = Count(call.allowedSubstances, id)
           /\ \A i \in 1..Len(got) :
                 /\ got[i].evidence = EvidenceOf(call.evidenceTable, gotIds[i])
                 /\ Missing(gotIds[i]) =>
                       /\ got[i].evidence = Null
                       /\ got[i].ui.evidenceChip = "Evidenz unklar"
                       /\ got[i].ui.efficacyHint = "unklar"
           /\ \A i, j \in 1..Len(got) :
                 (Missing(gotIds[i]) /\ ~Missing(gotIds[j])) => j < i

\* an id without entry is given first, twice, and alphabetically before an
\* id that has an entry
C19_Witness ==
    /\ call.op = "rankSubstancesByEvidence"
    /\ Len(call.allowedSubstances) = 3
    /\ IsNull(EvidenceOf(call.evidenceTable, call.allowedSubstances[1]))
    /\ call.allowedSubstances[2] = call.allowedSubstances[1]
    /\ ~IsNull(EvidenceOf(call.evidenceTable, call.allowedSubstances[3]))
    /\ localeCompare(call.allowedSubstances[1], call.allowedSubstances[3]) < 0
    /\ call.result[1].substance_id = call.allowedSubstances[3]
    /\ call.result[3].evidence = Null

(***************************************************************************)
(* C20: for every whole-year age a, ageBin(a) is null iff a < 50;          *)
(* otherwise it is a multiple of 5 between 50 and 90, at most a, and 90    *)
(* for every a >= 90.                                                      *)
(***************************************************************************)
C20_AgeBin ==
    call.op = "ageBin" =>
        LET a == call.ageYears
            bin == call.result
        IN /\ IsNull(bin) <=> a < 50
           /\ ~IsNull(bin) =>
                 /\ Val(bin) % 5 = 0
                 /\ Val(bin) >= 50 /\ Val(bin) <= 90
                 /\ Val(bin) <= a
                 /\ a >= 90 => Val(bin) = 90

\* an age of 95 or more, whose own multiple of 5 lies above the clamp
C20_Witness ==
    /\ call.op = "ageBin"
    /\ call.ageYears >= 95
    /\ call.result = Some(90)

\* the bins of a mapTscoreToBin call, its best and its worst bin
CallBins == Range(call.availableBins)
BestBin == CHOOSE b \in CallBins : \A c \in CallBins : b >= c
WorstBin == CHOOSE b \in CallBins : \A c \in CallBins : b <= c

(***************************************************************************)
(* C21: for every non-empty bin set and every score mapTscoreToBin returns *)
(* a member of the bin set; the best bin for a score above the best bin,   *)
(* the worst bin for a score below the worst bin.                          *)
(***************************************************************************)
C21_BinClosure ==
    (call.op = "mapTscoreToBin" /\ CallBins # {}) =>
        /\ ~call.result.threw
        /\ call.result.bin \in CallBins
        /\ call.tscore > BestBin => call.result.bin = BestBin
        /\ call.tscore < WorstBin => call.result.bin = WorstBin

\* a score strictly between two bins of an unsorted list that is no bin itself
C21_Witness ==
    /\ call.op = "mapTscoreToBin"
    /\ Len(call.availableBins) >= 2
    /\ call.availableBins[1] < call.availableBins[2]
    /\ call.tscore \notin CallBins
    /\ call.tscore < BestBin /\ call.tscore > WorstBin
    /\ call.result.bin \in CallBins

(***************************************************************************)
(* C22: for a score between the worst and the best bin mapTscoreToBin      *)
(* returns the score itself when it is a bin, otherwise the more negative  *)
(* of the two adjacent bins: the largest bin that is at most the score,    *)
(* never a better bin, whatever the order of the bin list.                 *)
(***************************************************************************)
C22_SnapToWorse ==
    (call.op = "mapTscoreToBin" /\ CallBins # {}
        /\ call.tscore <= BestBin /\ call.tscore >= WorstBin) =>
        /\ call.tscore \in CallBins => call.result.bin = call.tscore
        /\ call.result.bin <= call.tscore
        /\ \A b \in CallBins : b <= call.tscore => b <= call.result.bin
        /\ call.result.bin \in CallBins

\* three bins out of order, the score between the two worse ones
C22_Witness ==
    /\ call.op = "mapTscoreToBin"
    /\ Cardinality(CallBins) = 3
    /\ call.availableBins[1] = WorstBin
    /\ call.tscore \notin CallBins
    /\ call.tscore > WorstBin
    /\ call.result.bin = WorstBin
    /\ \E b \in CallBins : b > call.tscore /\ b < BestBin

(***************************************************************************)
(* C23: mapTscoreToBin called with an empty bin list fails with an error   *)
(* for every score and returns no bin.                                     *)
(***************************************************************************)
C23_EmptyBinsThrow ==
    (call.op = "mapTscoreToBin" /\ Len(call.availableBins) = 0) => call.result.threw

\* an empty bin list and a score that is a usual bin value
C23_Witness ==
    /\ call.op = "mapTscoreToBin"
    /\ call.availableBins = <<>>
    /\ call.tscore = 0
    /\ call.result.threw


\* a threshold table of the current sex that carries no density bin
ZeroBinTableForSex ==
    \E i \in 1..Len(bundle.tables) :
        /\ bundle.tables[i].sex = sex
        /\ Len(getAvailableTscoreBins(bundle.tables[i])) = 0

InScopeInputs ==
    /\ sex # "null"
    /\ ~IsNull(age) /\ Val(age) >= 50
    /\ (IsNull(tscoreTotalHip) \/ Val(tscoreTotalHip) <= 0)

\* C24 as stated: an age below 50 or a T-score above 0.0 suppresses the
\* evaluation (results is null, nothing thrown) with the matching advisory
\* flag set, and with sex set, age >= 50 and a T-score absent or <= 0.0 a
\* result is computed.
C24_OutOfScopeOriginal ==
    /\ (~IsNull(age) /\ Val(age) < 50) => (results.status = "null" /\ isOutOfScope)
    /\ (~IsNull(tscoreTotalHip) /\ Val(tscoreTotalHip) > 0)
          => (results.status = "null" /\ isTscoreOutOfScope)
    /\ InScopeInputs => results.status = "ok"

\* C24 (amended): an age below 50 or a T-score above 0.0 suppresses the
\* evaluation (results is null, nothing thrown) with the matching advisory
\* flag set; with sex set, age >= 50 and a T-score absent or <= 0.0 neither
\* flag is set and the evaluation runs: it computes a result unless a T-score
\* is supplied and a threshold table of that sex has no density bin, in
\* which case it throws.
C24_OutOfScope ==
    /\ (~IsNull(age) /\ Val(age) < 50) => (results.status = "null" /\ isOutOfScope)
    /\ (~IsNull(tscoreTotalHip) /\ Val(tscoreTotalHip) > 0)
          => (results.status = "null" /\ isTscoreOutOfScope)
    /\ InScopeInputs =>
          /\ ~isOutOfScope /\ ~isTscoreOutOfScope
          /\ results.status # "null"
          /\ results.status = "threw"
                <=> (~IsNull(tscoreTotalHip) /\ ZeroBinTableForSex)

C24_Witness ==
    /\ sex # "null" /\ age = Some(50) /\ tscoreTotalHip = Some(0)
    /\ results.status = "ok"

\* ids toggleRf can be called with that displayRfs does not hold: catalog
\* entries that are not displayed, and an id of no catalog entry
NotDisplayableIds ==
    (RfIdsOf(catalog.risk_factors) \cup {UnknownRfId}) \ RfIdsOf(displayRfs)

\* C25: toggleRf called with an id that is not among the displayable risk
\* factors leaves the selection and the expanded-MEG set as they were, in
\* every state.
C25_UnknownToggleNoOp ==
    \A rfId \in NotDisplayableIds :
        toggleRfOn(selectedRfIds, expandedMegs, rfId)
            = [selectedRfIds |-> selectedRfIds, expandedMegs |-> expandedMegs]

\* a non-empty selection, and a catalog entry that is not displayed whose
\* MEG is indexed and collapsed
C25_Witness ==
    /\ selectedRfIds # {}
    /\ expandedMegs # {}
    /\ \E rfId \in NotDisplayableIds \ {UnknownRfId} :
          /\ MapGet(megIndex.rfToMeg, rfId) # ""
          /\ MapGet(megIndex.rfToMeg, rfId) \notin expandedMegs

\* the displayable factors that carry a MEG id
DisplayableInMeg ==
    {r \in RfIdsOf(displayRfs) :
        RfById(catalog, r).mutual_exclusion_group_id # ""}

\* C27: immediately after toggleRf on a displayable factor r of MEG m, m is
\* expanded if r is now selected, m is collapsed if no member of m is
\* selected, and the expansion state of every other MEG is unchanged.
C27_AutoExpandCollapse ==
    \A r \in DisplayableInMeg :
        LET m == RfById(catalog, r).mutual_exclusion_group_id
            after == toggleRfOn(selectedRfIds, expandedMegs, r)
        IN /\ r \in after.selectedRfIds => m \in after.expandedMegs
           /\ after.selectedRfIds \cap CatalogMembers(catalog, m) = {}
                 => m \notin after.expandedMegs
           /\ after.expandedMegs \ {m} = expandedMegs \ {m}

\* the only selected member of an expanded MEG, with another MEG expanded
\* too: toggling it collapses its MEG and nothing else
C27_Witness ==
    \E r \in DisplayableInMeg :
        LET m == RfById(catalog, r).mutual_exclusion_group_id
        IN /\ selectedRfIds \cap CatalogMembers(catalog, m) = {r}
           /\ m \in expandedMegs
           /\ expandedMegs \ {m} # {}
           /\ m \notin toggleRfOn(selectedRfIds, expandedMegs, r).expandedMegs

\* the selected members of f's MEG other than f, when that MEG is
\* single_choice_optional
SelectedRivals(f) ==
    LET m == RfById(catalog, f).mutual_exclusion_group_id
    IN IF m \in ExclusiveMegs(catalog)
       THEN (selectedRfIds \cap CatalogMembers(catalog, m)) \ {f}
       ELSE {}

\* C30: toggling the same displayable factor f twice in a row restores the
\* selection exactly when f is selected, or f is unselected and no other
\* member of its single_choice_optional MEG is selected; when another member
\* is selected, the two toggles leave the selection without that member.
C30_DoubleToggle ==
    \A f \in RfIdsOf(displayRfs) :
        LET once == toggleRfOn(selectedRfIds, expandedMegs, f)
            twice == toggleRfOn(once.selectedRfIds, once.expandedMegs, f)
        IN /\ (f \in selectedRfIds \/ SelectedRivals(f) = {})
                 => twice.selectedRfIds = selectedRfIds
           /\ (f \notin selectedRfIds /\ SelectedRivals(f) # {})
                 => /\ twice.selectedRfIds = selectedRfIds \ SelectedRivals(f)
                    /\ twice.selectedRfIds # selectedRfIds

\* an unselected factor with a selected rival, next to a selected factor of
\* a MEG that allows several
C30_Witness ==
    /\ \E f \in RfIdsOf(displayRfs) :
          f \notin selectedRfIds /\ SelectedRivals(f) # {}
    /\ \E g \in selectedRfIds :
          RfById(catalog, g).mutual_exclusion_group_id # ""
          /\ RfById(catalog, g).mutual_exclusion_group_id
                \notin ExclusiveMegs(catalog)

\* C26: with sex set, age >= 50 and a T-score absent or <= 0.0, for every
\* selection the evaluation completes without throwing and returns one of
\* the four band names, provided every threshold table of that sex has at
\* least one density bin; the evaluation throws only for a supplied T-score
\* against a table without density bins.
C26_NoThrowOnClinicalInput ==
    /\ (InScopeInputs /\ ~ZeroBinTableForSex)
          => (results.status = "ok" /\ results.band \in RiskBands)
    /\ results.status = "threw"
          => (~IsNull(tscoreTotalHip) /\ ZeroBinTableForSex)

\* a T-score that is no bin of the tables, looked up in a bundle with
\* missing tables and missing entries, with a risk factor selected
C26_Witness ==
    /\ InScopeInputs /\ ~ZeroBinTableForSex
    /\ tscoreTotalHip = Some(-130)
    /\ selectedRfIds # {}
    /\ \E pct \in {3, 5, 10} : IsNull(FindTable(bundle, sex, pct))
    /\ \E pct \in {3, 5, 10} :
          /\ ~IsNull(FindTable(bundle, sex, pct))
          /\ -130 \notin Range(getAvailableTscoreBins(Val(FindTable(bundle, sex, pct))))
    /\ results.status = "ok"

\* C28: in every computed result the recommendation string and the therapy
\* plan agree (no specific therapy <=> none, can be considered <=>
\* consider_antiresorptive, recommended <=> antiresorptive, indicated (high)
\* <=> osteoanabolic_start), and the ranked substance list is empty whenever
\* the strategy is none.
C28_RecommendationAgreesWithPlan ==
    results.status = "ok" =>
        LET rec == results.recommendation
            strategy == results.therapyPlan.strategy
        IN /\ rec = "Keine spezifische Therapie; Praevention / Verlauf"
                 <=> strategy = "none"
           /\ rec = "Therapie kann erwogen werden"
                 <=> strategy = "consider_antiresorptive"
           /\ rec = "Therapie empfohlen" <=> strategy = "antiresorptive"
           /\ rec = "Therapie indiziert (hoch)" <=> strategy = "osteoanabolic_start"
           /\ strategy = "none" => results.rankedSubstances = <<>>

\* the 3-<5% band without a trigger: no specific therapy, strategy none and
\* no substance
C28_Witness ==
    /\ results.status = "ok"
    /\ results.band = "3-<5%"
    /\ ~results.triggers.triggerPresent
    /\ results.recommendation = "Keine spezifische Therapie; Praevention / Verlauf"
    /\ results.rankedSubstances = <<>>

\* C29: whenever the list selectTop2RiskFactors returns holds a factor
\* tagged G3_OTHER_2 it also holds the factor tagged G3_OTHER_1, placed
\* before it.
C29_Other2OnlyAfterOther1 ==
    call.op = "selectTop2RiskFactors" =>
        \A i \in 1..Len(call.result) :
            call.result[i].poolSource = "G3_OTHER_2" =>
                \E j \in 1..(i - 1) : call.result[j].poolSource = "G3_OTHER_1"

\* the two strongest 'other' factors are equally strong and both returned,
\* ahead of a selected factor of another group
C29_Witness ==
    /\ call.op = "selectTop2RiskFactors"
    /\ Len(call.result) = 2
    /\ call.result[2].poolSource = "G3_OTHER_2"
    /\ call.result[1].rf.rr_3y = call.result[2].rf.rr_3y
    /\ \E id \in call.selected :
          RfById(catalog, id).group # "G3_OTHER"
          /\ RfById(catalog, id).included_in_risk_calc
====
